---- MODULE Spec2Model ----
(***************************************************************************)
(* Model of the chunked transcript rewriting job of                        *)
(* app/src/transcript_pipeline/processor/chunked_processor.py              *)
(* (ChunkedProcessor.process and the three rewriting paths) together with  *)
(* the credential check of the generator adapter                           *)
(* (src/transcript_pipeline/processor/litellm_processing.py).              *)
(*                                                                         *)
(* A text is represented by where it comes from and by its length in       *)
(* characters, with the offsets of its chapter-heading lines:              *)
(* [src, span, len, heads].  Lengths are the real character counts, so     *)
(* every comparison the code makes on len(...) is made on the same         *)
(* numbers.  The Generator is the environment: each call either raises or  *)
(* returns a text whose length is drawn from a small set placed around the *)
(* bounds the code compares it with.  The files written under output_dir   *)
(* and the mock mode of the adapter are not part of the model.             *)
(***************************************************************************)
EXTENDS Integers, Sequences, FiniteSets, TLC

(* ---------------------------- bounds ---------------------------------- *)
\* source texts have length SourceUnit * u, u in 1..MaxSourceUnits
SourceUnit == 10000
MaxSourceUnits == 3
\* a structure index returned by the Generator lists at most this many chapters
MaxChapters == 3
\* a short Generator answer, well below every lower bound of the model
ShortLen == 500
\* extra target length (over the source length) of an expansion job
ExpansionExtra == 15000
\* analysis-size ceiling of the jobs that build the structure index in windows
SmallMasterMax == 28000

\* lengths of the recorded outputs the final trim is examined on
TrimShortLen == 30000
TrimLongLen == 70000
\* offset of a chapter heading that follows some introductory text
Preamble == 100

\* source lengths and structure indexes the span planning is examined on:
\* a very short, a medium and a long source; outlines of at most
\* PlanMaxChapters headings numbered 0..PlanMaxNumber, in any order
PlanShortSource == 7
PlanMidSource == 10001
PlanLongSource == 100003
PlanMaxChapters == 4
PlanMaxNumber == 3

(* ----------------------- program constants ---------------------------- *)
chunk_size == 15000
max_retries == 3
master_doc_max_size == 2000000
max_chapter_chunk_size == 20000
target_chapter_size == 15000
max_chapter_size == 15000
ApiLimit == 20000
TailChars == 1000
ExpansionTailChars == 400
NoticeLen == 67
PlaceholderPrefixLen == 58
OverageAllowance == 50000
target_segment_size == 20000

(* ----------------------------- helpers -------------------------------- *)
Min(a, b) == IF a < b THEN a ELSE b

Max(a, b) == IF a > b THEN a ELSE b

\* math.ceil(a / b) for a >= 0, b > 0
CeilDiv(a, b) == (a + b - 1) \div b

\* int(t * (num/den)) for the literals 0.7, 0.8, 0.9, 1.1, 1.2, 1.3, 1.7
IntMul(t, num, den) == (t * num) \div den

NoLength == -1
NoText == [src |-> "none", span |-> -1, len |-> 0, heads |-> <<>>, nl |-> 0]
NoTail == [of |-> NoText, len |-> 0]
NoDoc == [kind |-> "none", headings |-> <<>>, topics |-> <<>>]
NoCall == [kind |-> "none", span |-> -1, tail |-> NoTail, retry |-> <<>>,
           last_chapter_num |-> -1, outcome |-> "none"]

\* the exception objects the job can see
GenerationError == "GenerationError"
MissingCredentialError == "MissingCredentialError"
ZeroDivisionError == "ZeroDivisionError"
ValueError == "ValueError"
OSError == "OSError"
TypeError == "TypeError"
NoTranscriptFound == "NoTranscriptFound"
TranscriptsDisabled == "TranscriptsDisabled"
OtherError == "OtherError"

VARIABLES
    job,               \* the job input: source length, config, credential
    pc,                \* position of the job inside ChunkedProcessor.process
    master_document,   \* the structure index, NoDoc until it is built
    master_doc_parts,  \* outlines of the analysis windows built so far
    path,              \* the rewriting path process() has entered
    chunks,            \* the spans of the path, in order
    i,                 \* index (0-based) of the span being rewritten
    retries,           \* attempts used in the main loop of span i
    success,           \* span i passed validation
    processed_chunk,   \* last text obtained for span i (None = NoText)
    retry_instruction, \* corrective instructions built for the next attempt
    processed_chunks,  \* recorded outputs, one per finished span
    chunks_info,       \* the processing record
    processed_transcript, \* the text the rewriting path returns to process()
    result,            \* the text process() returns, NoText until then
    raised,            \* the exception that left process(), "none" if none
    call,              \* the generate call made by the latest step: its
                       \* kind, span, prompt and outcome; NoCall if none
    spanCalls,         \* generate calls issued so far for span i
    backendCalled,     \* some call of the job reached the backend
    environ,           \* os.environ of the process: mock switch, credential,
                       \* fallback switch
    run,               \* the job the process is running, if any
    llm,               \* the process_llm call in progress, if any
    store,             \* the transcripts directory: the clock, the jobs of
                       \* fetch_and_store_transcript and the files written
    fetch,             \* the fetch_transcript call: its inputs, the sources
                       \* requested so far and its outcome
    disk               \* the output directory of the job: whether one was
                       \* given, whether files can be written to it, and
                       \* the record file (chunks_info.json) once written

\* the state outside one run of ChunkedProcessor.process
world == <<environ, run, llm, store, fetch, disk>>

vars == <<job, pc, master_document, master_doc_parts, path, chunks, i, retries,
          success, processed_chunk, retry_instruction, processed_chunks,
          chunks_info, processed_transcript, result, raised, call, spanCalls,
          backendCalled, world>>

\* the variables of one run of ChunkedProcessor.process
jobVars == <<job, pc, master_document, master_doc_parts, path, chunks, i,
             retries, success, processed_chunk, retry_instruction,
             processed_chunks, chunks_info, processed_transcript, result,
             raised, call, spanCalls, backendCalled>>

(* ------------------------- outside the job ---------------------------- *)
\* os.environ when the process starts: MOCK_LLM_API is not set
Environ(key, fallback) ==
    [MOCK_LLM_API |-> FALSE, API_KEY |-> key, LLM_FALLBACK_ENABLED |-> fallback]

\* no job is running
NoRun == [pc |-> "idle", entry |-> "none", mock_mode |-> FALSE, jobs |-> 0,
          calls |-> 0]

\* what process_llm has not returned
NoResponse == [src |-> "none", model |-> "none", head |-> "none", attempt |-> 0]

\* no call of process_llm is in progress
NoLlm == [pc |-> "idle", context |-> "none", model |-> "none", max_retries |-> 0,
          retry_count |-> 0, last_error |-> "none", errors |-> <<>>,
          fallback_raised |-> "none", fallback_attempts |-> 0,
          result |-> NoResponse, raised |-> "none"]

\* video_dir before setup_video_directory has returned
NoDir == [video_id |-> "none", timestamp |-> -1]

\* the transcripts directory when the process starts
NoStore == [clock |-> 0, jobs |-> <<>>, dirs |-> {}, files |-> {},
            overwritten |-> {}]

\* no call of fetch_transcript has been made
NoFetch == [pc |-> "idle", video_url |-> "none", fallback_to_auto |-> TRUE,
            sources |-> [preferred |-> "none", listing |-> "none",
                         manual |-> "none", generated |-> "none"],
            requests |-> <<>>, result |-> "none", raised |-> "none"]

\* process() is called without output_dir; no record file has been written
NoDisk == [output_dir |-> FALSE, writable |-> TRUE,
           info_written |-> FALSE, info |-> <<>>]

WorldInit(key) ==
    /\ environ = Environ(key, FALSE)
    /\ run = NoRun
    /\ llm = NoLlm
    /\ store = NoStore
    /\ fetch = NoFetch
    /\ disk = NoDisk

(* --------------------------- job inputs ------------------------------- *)
SourceLengths == {SourceUnit * u : u \in 1..MaxSourceUnits}

\* config["ai"]["length_in_chars"]: absent, a condensation, the same length,
\* or an expansion
LengthChoices(L) == {NoLength, L \div 2, L, L + ExpansionExtra}

Jobs ==
    [original_length : SourceLengths,
     length_in_chars : UNION {LengthChoices(L) : L \in SourceLengths},
     use_chapter_aligned_chunking : BOOLEAN,
     master_doc_max_size : {master_doc_max_size, SmallMasterMax},
     api_key : BOOLEAN]

\* the jobs of the model: the configured length is one of the choices for the
\* source; settings that the job never reads are left at their defaults (the
\* small analysis ceiling only for sources above it, and both only for jobs
\* that do not expand)
JobInputs ==
    {j \in Jobs :
        /\ j.length_in_chars \in LengthChoices(j.original_length)
        /\ j.master_doc_max_size = SmallMasterMax
              => j.original_length > SmallMasterMax
        /\ j.length_in_chars > j.original_length
              => /\ j.use_chapter_aligned_chunking
                 /\ j.master_doc_max_size = master_doc_max_size}

\* target_length = config.get("ai", {}).get("length_in_chars", original_length)
target_length(j) ==
    IF j.length_in_chars = NoLength THEN j.original_length ELSE j.length_in_chars

\* scaling_factor = target_length / original_length, compared with a literal
\* num/10: the comparisons of the code on the exact quotient
ScalingGreater(j, num) == 10 * target_length(j) > num * j.original_length

ScalingLess(j, num) == 10 * target_length(j) < num * j.original_length



Init ==
    /\ job \in JobInputs
    /\ pc = "master"
    /\ master_document = NoDoc
    /\ master_doc_parts = <<>>
    /\ path = "none"
    /\ chunks = <<>>
    /\ i = 0
    /\ retries = 0
    /\ success = FALSE
    /\ processed_chunk = NoText
    /\ retry_instruction = <<>>
    /\ processed_chunks = <<>>
    /\ chunks_info = <<>>
    /\ processed_transcript = NoText
    /\ result = NoText
    /\ raised = "none"
    /\ call = NoCall
    /\ spanCalls = 0
    /\ backendCalled = FALSE
    /\ WorldInit(job.api_key)

(* ------------------------- generator adapter -------------------------- *)
\* _check_api_key_for_model: raises before anything else when the key of the
\* model's provider is not set
check_api_key_raises(j) == ~j.api_key

\* the exceptions one process_llm call of this job can end with
ProcessLlmExceptions(j) ==
    IF check_api_key_raises(j) THEN {MissingCredentialError} ELSE {GenerationError}

\* process_llm can return a text only after the credential check has passed
ProcessLlmReturns(j) == ~check_api_key_raises(j)

\* lengths of the texts the Generator returns to a rewriting call whose
\* accepted range is [lo, hi]
GenLengths(lo, hi) == {n \in {ShortLen, lo - 1, lo, hi, hi + 1} : n >= 0}

\* the same for the expansion path, where an empty answer is told apart
ExpansionGenLengths(lo, hi) == {n \in {0, lo - 1, lo, hi, hi + 1} : n >= 0}

SpanCallKinds == {"chapter_main", "chapter_simple", "fixed_main", "fixed_simple",
                  "expansion_main"}

StructureCallKinds == {"master_single", "master_first", "master_continuation",
                       "topic_outline"}

\* one call of process_llm by the job: what was sent and how it ended
MakeCall(kind, span, tail, retry, last, outcome) ==
    /\ call' = [kind |-> kind, span |-> span, tail |-> tail, retry |-> retry,
                last_chapter_num |-> last, outcome |-> outcome]
    /\ backendCalled' = (backendCalled \/ ~check_api_key_raises(job))
    /\ spanCalls' = IF kind \in SpanCallKinds THEN spanCalls + 1 ELSE spanCalls

\* a step of the job that calls nothing
NoCallMade ==
    /\ call' = NoCall
    /\ UNCHANGED backendCalled

(* ------------------------- structure index ---------------------------- *)
\* required_chunks / required_chapters = math.ceil(target_length / 15000)
required_chapters(j) == CeilDiv(target_length(j), max_chapter_size)

RECURSIVE UpTo(_)
UpTo(k) == IF k = 0 THEN <<>> ELSE Append(UpTo(k - 1), k)

\* the chapter headings of the outlines the Generator returns for the whole
\* input: none, "Chapter 0" alone, or Chapter 1..k
MasterDocOutputs == {UpTo(k) : k \in 0..MaxChapters} \cup {<<0>>}

Doc(kind, headings, topics) ==
    [kind |-> kind, headings |-> headings, topics |-> topics]

\* process() leaves with exception e
Raise(e) ==
    /\ pc' = "raised"
    /\ raised' = e

\* _create_master_document, one pass over the whole input
CreateMasterDocumentSingle ==
    /\ pc = "master"
    /\ ~ScalingGreater(job, 10)
    /\ job.original_length <= job.master_doc_max_size
    /\ IF required_chapters(job) = 0
       THEN /\ Raise(ZeroDivisionError)
            /\ NoCallMade
            /\ UNCHANGED <<master_document, spanCalls>>
       ELSE \/ \E e \in ProcessLlmExceptions(job) :
                 /\ MakeCall("master_single", -1, NoTail, <<>>, -1, "raised")
                 /\ Raise(e)
                 /\ UNCHANGED master_document
            \/ /\ ProcessLlmReturns(job)
               /\ MakeCall("master_single", -1, NoTail, <<>>, -1, "returned")
               /\ \E h \in MasterDocOutputs :
                     master_document' = Doc("single", h, <<>>)
               /\ pc' = "select"
               /\ UNCHANGED raised
    /\ UNCHANGED <<job, master_doc_parts, path, chunks, i, retries, success,
                   processed_chunk, retry_instruction, processed_chunks,
                   chunks_info, processed_transcript, result>>
    /\ UNCHANGED world

\* the analysis windows: range(0, transcript_length, master_doc_max_size // 2)
master_doc_chunk_size(j) == j.master_doc_max_size \div 2

MasterWindows(j) == CeilDiv(j.original_length, master_doc_chunk_size(j))

\* last chapter number found in the previous part only, 0 when it has none
last_chapter_num(parts) ==
    IF parts = <<>> THEN 0
    ELSE LET prev == parts[Len(parts)]
         IN IF prev = <<>> THEN 0 ELSE prev[Len(prev)]

RECURSIVE Concat(_)
Concat(ss) == IF ss = <<>> THEN <<>> ELSE Head(ss) \o Concat(Tail(ss))

\* _create_master_document, one analysis window per call: the FIRST prompt for
\* window 0, the CONTINUATION prompt with a last chapter number for the
\* others; the outlines are joined after the last window
CreateMasterDocumentWindow ==
    /\ pc = "master"
    /\ ~ScalingGreater(job, 10)
    /\ job.original_length > job.master_doc_max_size
    /\ Len(master_doc_parts) < MasterWindows(job)
    /\ LET w == Len(master_doc_parts)
           last == last_chapter_num(master_doc_parts)
           kind == IF w = 0 THEN "master_first" ELSE "master_continuation"
           told == IF w = 0 THEN -1 ELSE last
       IN \/ \E e \in ProcessLlmExceptions(job) :
               /\ MakeCall(kind, w, NoTail, <<>>, told, "raised")
               /\ Raise(e)
               /\ UNCHANGED <<master_document, master_doc_parts>>
          \/ /\ ProcessLlmReturns(job)
             /\ MakeCall(kind, w, NoTail, <<>>, told, "returned")
             /\ \E part \in {<<>>, <<last + 1>>} :
                  LET parts == Append(master_doc_parts, part)
                  IN /\ master_doc_parts' = parts
                     /\ IF Len(parts) = MasterWindows(job)
                        THEN /\ master_document' = Doc("windows", Concat(parts), <<>>)
                             /\ pc' = "select"
                        ELSE UNCHANGED <<master_document, pc>>
             /\ UNCHANGED raised
    /\ UNCHANGED <<job, path, chunks, i, retries, success, processed_chunk,
                   retry_instruction, processed_chunks, chunks_info,
                   processed_transcript, result>>
    /\ UNCHANGED world

\* _create_master_document_for_expansion: one topic-outline call per segment;
\* a failing call is replaced by the fixed list of topics.  The document has a
\* "## Chapter k:" heading per segment and the example heading "## Chapter 1:"
CreateMasterDocumentForExpansion ==
    /\ pc = "master"
    /\ ScalingGreater(job, 10)
    /\ Len(master_doc_parts) < required_chapters(job)
    /\ \E outcome \in (IF ProcessLlmReturns(job) THEN {"returned"} ELSE {})
                        \cup {"raised"} :
         LET parts == Append(master_doc_parts,
                             IF outcome = "returned" THEN "generated" ELSE "fallback")
         IN /\ MakeCall("topic_outline", Len(master_doc_parts), NoTail, <<>>, -1,
                        outcome)
            /\ master_doc_parts' = parts
            /\ IF Len(parts) = required_chapters(job)
               THEN /\ master_document' =
                          Doc("expansion", UpTo(Len(parts)) \o <<1>>, parts)
                    /\ pc' = "select"
               ELSE UNCHANGED <<master_document, pc>>
    /\ UNCHANGED <<job, path, chunks, i, retries, success, processed_chunk,
                   retry_instruction, processed_chunks, chunks_info,
                   processed_transcript, result,
                   raised>>
    /\ UNCHANGED world

(* ------------------------------ texts --------------------------------- *)
\* a text: its origin, the span it was produced for, its length, and the
\* offsets of its lines that start with "Chapter <number>"
Text(src, span, len, heads) ==
    [src |-> src, span |-> span, len |-> len, heads |-> heads, nl |-> 0]

\* an answer of the Generator of n characters to a call whose accepted range
\* ends at hi; of the answers of the model, the one of exactly hi characters
\* ends with a newline
Answer(src, span, n, hi) ==
    [src |-> src, span |-> span, len |-> n, heads |-> <<>>,
     nl |-> IF n = hi THEN 1 ELSE 0]

\* text[-n:], the final n characters, the whole text when it is shorter
TailOf(text, n) == [of |-> text, len |-> Min(text.len, n)]

(* ------------------------------ spans --------------------------------- *)
Span(start_char, end_char, chapter_numbers) ==
    [start_char |-> start_char, end_char |-> end_char,
     chapter_numbers |-> chapter_numbers]

\* variant of parse_master_document that finds a chapter in an outline
\* without headings
parse_master_document_finds_one(doc) ==
    IF doc.headings = <<>> THEN <<1>>
    ELSE SortSeq(doc.headings, LAMBDA a, b : a < b)

\* _parse_master_document: the chapters found, sorted by number
parse_master_document(doc) == SortSeq(doc.headings, LAMBDA a, b : a < b)

\* the greedy packing loop of _create_chapter_aligned_chunks: chapters[k..] are
\* added to current or open a new chunk; returns the chapter numbers per chunk
RECURSIVE PackChapters(_, _, _, _, _)
PackChapters(chapters, k, packed, current, transcript_length) ==
    IF k > Len(chapters)
    THEN IF current # <<>> THEN Append(packed, current) ELSE packed
    ELSE LET chapter_num == chapters[k]
             est_chapter_size ==
                 Min(target_chapter_size, transcript_length \div Len(chapters))
             current_chunk_size == est_chapter_size * Len(current)
             max_chapters_per_chunk ==
                 Max(1, max_chapter_chunk_size \div target_chapter_size)
         IN IF chapter_num < 1
            THEN PackChapters(chapters, k + 1, packed, current, transcript_length)
            ELSE IF k = 1
            THEN PackChapters(chapters, k + 1, packed, <<chapter_num>>,
                              transcript_length)
            ELSE IF current = <<>>
            THEN PackChapters(chapters, k + 1, packed, <<chapter_num>>,
                              transcript_length)
            ELSE IF (IF transcript_length # 0
                     THEN current_chunk_size + est_chapter_size > max_chapter_chunk_size
                     ELSE Len(current) >= max_chapters_per_chunk)
            THEN PackChapters(chapters, k + 1, Append(packed, current),
                              <<chapter_num>>, transcript_length)
            ELSE PackChapters(chapters, k + 1, packed,
                              Append(current, chapter_num), transcript_length)

\* variant of create_chapter_aligned_chunks in which the last chunk has the
\* size of the others
create_chapter_aligned_chunks_equal(chapters, transcript_length) ==
    LET packed == PackChapters(chapters, 1, <<>>, <<>>, transcript_length)
        n == Len(packed)
        size == transcript_length \div n
    IN [k \in 1..n |-> Span((k - 1) * size, k * size, packed[k])]

\* _create_chapter_aligned_chunks: the source is divided equally among the
\* packed chunks, the last chunk ending at the end of the source
create_chapter_aligned_chunks(chapters, transcript_length) ==
    LET packed == PackChapters(chapters, 1, <<>>, <<>>, transcript_length)
        n == Len(packed)
        size == transcript_length \div n
    IN [k \in 1..n |->
          Span((k - 1) * size,
               IF k < n THEN k * size ELSE transcript_length,
               packed[k])]

\* the division transcript_length // len(chunks) fails when every chapter was
\* skipped
create_chapter_aligned_chunks_raises(chapters, transcript_length) ==
    /\ transcript_length # 0
    /\ PackChapters(chapters, 1, <<>>, <<>>, transcript_length) = <<>>

\* _process_chunks_with_continuity: range(0, len(transcript_text), chunk_size)
fixed_size_chunks(transcript_length) ==
    [k \in 1..CeilDiv(transcript_length, chunk_size) |->
        Span((k - 1) * chunk_size,
             Min(k * chunk_size, transcript_length), <<>>)]

(* The boundaries of the expansion segments are computed with floats:     *)
(* segment_size = original_length / required_chapters is the double        *)
(* nearest to the quotient, i * segment_size the double nearest to the     *)
(* product, and int() cuts the fraction off.  A double is [bits, exp]:     *)
(* the binary digits of its significand, most significant first, and the   *)
(* exponent of two of the last digit.                                      *)
\* the digits of the significand of a double
MantissaBits == 53

\* the binary digits of a natural number, most significant first
RECURSIVE Bits(_)
Bits(x) == IF x = 0 THEN <<>> ELSE Append(Bits(x \div 2), x % 2)

\* the natural number with the given binary digits
RECURSIVE Value(_)
Value(bits) ==
    IF bits = <<>> THEN 0
    ELSE 2 * Value(SubSeq(bits, 1, Len(bits) - 1)) + bits[Len(bits)]

\* the digits of the number plus one
RECURSIVE Incr(_)
Incr(bits) ==
    IF bits = <<>> THEN <<1>>
    ELSE IF bits[Len(bits)] = 0 THEN [bits EXCEPT ![Len(bits)] = 1]
    ELSE Append(Incr(SubSeq(bits, 1, Len(bits) - 1)), 0)

\* round to nearest, ties to even: digits that start with 1, the exponent
\* of the last digit, and whether a non-zero rest lies below the digits
round_to_double(bits, exp, sticky) ==
    IF Len(bits) <= MantissaBits THEN [bits |-> bits, exp |-> exp]
    ELSE LET kept == SubSeq(bits, 1, MantissaBits)
             dropped == Len(bits) - MantissaBits
             guard == bits[MantissaBits + 1]
             rest == sticky \/ \E k \in (MantissaBits + 2)..Len(bits) : bits[k] = 1
             up == guard = 1 /\ (rest \/ kept[MantissaBits] = 1)
             rounded == IF up THEN Incr(kept) ELSE kept
         IN IF Len(rounded) > MantissaBits
            THEN [bits |-> SubSeq(rounded, 1, MantissaBits),
                  exp |-> exp + dropped + 1]
            ELSE [bits |-> rounded, exp |-> exp + dropped]

\* the long division a / b, digit by digit, until one digit more than the
\* significand holds
RECURSIVE DivBits(_, _, _, _)
DivBits(bits, r, b, exp) ==
    IF Len(bits) > MantissaBits
    THEN round_to_double(bits, exp, r # 0)
    ELSE LET d == (2 * r) \div b
         IN DivBits(IF bits = <<>> /\ d = 0 THEN <<>> ELSE Append(bits, d),
                    (2 * r) % b, b, exp - 1)

\* a / b for integers a >= 0 and b > 0: the nearest double
true_divide(a, b) ==
    IF a = 0 THEN [bits |-> <<>>, exp |-> 0]
    ELSE DivBits(Bits(a \div b), a % b, b, 0)

\* the digits of the product of the number with digits bits and k: the
\* first at digits of bits are still to be multiplied, low holds the digits
\* of the product found so far
RECURSIVE MulBits(_, _, _, _, _)
MulBits(bits, at, k, carry, low) ==
    IF at = 0 THEN Bits(carry) \o low
    ELSE MulBits(bits, at - 1, k, (bits[at] * k + carry) \div 2,
                 <<(bits[at] * k + carry) % 2>> \o low)

\* k * x for an integer k >= 0 and a double x: the nearest double
float_times(k, x) ==
    IF k = 0 \/ x.bits = <<>> THEN [bits |-> <<>>, exp |-> 0]
    ELSE round_to_double(MulBits(x.bits, Len(x.bits), k, 0, <<>>), x.exp, FALSE)

\* int(x) for a double x >= 0 below 2^31
int_of(x) ==
    IF Len(x.bits) + x.exp <= 0 THEN 0
    ELSE Value(SubSeq(x.bits, 1, Len(x.bits) + x.exp))

\* int(min(x, limit)) for a double x >= 0 and an integer limit
int_of_min(x, limit) ==
    IF Len(x.bits) + x.exp > Len(Bits(limit)) THEN limit
    ELSE Min(int_of(x), limit)

\* variant of segment_end that computes with exact integers
segment_end_exact(k, original, n) == Min((k * original) \div n, original)

\* end_char = int(min((i + 1) * segment_size, original_length))
segment_end(k, original, n) ==
    int_of_min(float_times(k, true_divide(original, n)), original)

\* start_char = int(i * segment_size)
segment_start(k, original, n) ==
    int_of(float_times(k - 1, true_divide(original, n)))

\* _process_with_expansion_chapters: required_chapters equal segments
expansion_segments(j) ==
    LET n == required_chapters(j)
        L == j.original_length
    IN [k \in 1..n |->
          Span(segment_start(k, L, n), segment_end(k, L, n), <<k>>)]

\* _create_master_document_for_expansion: the boundaries written into the
\* chapter headings of the structure index
master_document_segments(j) ==
    LET n == required_chapters(j)
        L == j.original_length
    IN [k \in 1..n |->
          [start_char |-> int_of(float_times(k - 1, true_divide(L, n))),
           end_char |-> int_of_min(float_times(k, true_divide(L, n)), L)]]

\* TranscriptSegmenter.segment_transcript on a text that is not longer than
\* target_segment_size: the whole text as one segment
segment_transcript_small(transcript_length) ==
    <<Span(0, transcript_length, <<>>)>>

(* ------------------------- length budgets ----------------------------- *)
Budget(target, lo, hi) == [target |-> target, min |-> lo, max |-> hi]

\* variant of Band whose lower bound is 110% of the target
Band_above_target(j, target_chunk_length) ==
    Budget(target_chunk_length, IntMul(target_chunk_length, 11, 10),
           IntMul(target_chunk_length, 13, 10))

\* the tolerance band chosen by the job's scaling factor
Band(j, target_chunk_length) ==
    IF ScalingLess(j, 7)
    THEN Budget(target_chunk_length, IntMul(target_chunk_length, 7, 10),
                IntMul(target_chunk_length, 13, 10))
    ELSE IF ScalingGreater(j, 13)
    THEN Budget(target_chunk_length, IntMul(target_chunk_length, 8, 10),
                IntMul(target_chunk_length, 12, 10))
    ELSE Budget(target_chunk_length, IntMul(target_chunk_length, 9, 10),
                IntMul(target_chunk_length, 11, 10))

\* int(input_length * scaling_factor)
scaled_length(j, input_length) ==
    (input_length * target_length(j)) \div j.original_length

\* variant of chapter_budget that caps the target after the band is computed
chapter_budget_caps_after_band(j, input_length) ==
    Budget(Min(scaled_length(j, input_length), ApiLimit),
           Band(j, scaled_length(j, input_length)).min,
           Band(j, scaled_length(j, input_length)).max)

\* chapter-aligned path: target capped at the API limit, then the band
chapter_budget(j, input_length) ==
    Band(j, Min(scaled_length(j, input_length), ApiLimit))

\* fixed-size path: no cap; without a configured length the band is 80%-120%
\* of the span itself
fixed_budget(j, chunk_length) ==
    IF j.length_in_chars # NoLength
    THEN Band(j, scaled_length(j, chunk_length))
    ELSE Budget(chunk_length, IntMul(chunk_length, 8, 10),
                IntMul(chunk_length, 12, 10))

\* create_master_document_for_expansion_prompt: the range the expansion
\* instruction names ("REJECTED if not within min-max characters")
expansion_prompt_range(target) ==
    [min |-> target, max |-> IntMul(target, 17, 10)]

\* expansion path: every segment is expanded to max_chapter_size
expansion_budget ==
    Budget(max_chapter_size, IntMul(max_chapter_size, 7, 10),
           IntMul(max_chapter_size, 17, 10))

input_length(chunk) == chunk.end_char - chunk.start_char

span_budget(p, j, chunk) ==
    IF p = "chapter" THEN chapter_budget(j, input_length(chunk))
    ELSE IF p = "fixed" THEN fixed_budget(j, input_length(chunk))
    ELSE expansion_budget

\* lengths of the texts the Generator returns to a main-loop call of a
\* ChunkRewriter path: those around the bounds, and the target itself
AnswerLengths(b) == GenLengths(b.min, b.max) \cup {b.target}

(* ------------------------ length validation --------------------------- *)
\* variant of too_short that lets every length through
too_short_never(output_length, min_target_length) == FALSE

\* if output_length < min_target_length: retry
too_short(output_length, min_target_length) ==
    output_length < min_target_length

\* variant of too_long without the exemption of the last span
too_long_without_exemption(is_last_chunk, output_length, max_target_length) ==
    output_length > max_target_length

\* if not is_last_chunk and output_length > max_target_length: retry
too_long(is_last_chunk, output_length, max_target_length) ==
    ~is_last_chunk /\ output_length > max_target_length

\* expansion path: if output_length > max_target_length: retry
expansion_too_long(is_last, output_length, max_target_length) ==
    output_length > max_target_length


(* --------------------------- path selection --------------------------- *)
\* variant of select_path that expands from a scaling factor of 1.0 on
select_path_from_one(j, doc) ==
    IF ~ScalingLess(j, 10) THEN "expansion"
    ELSE IF j.use_chapter_aligned_chunking /\ parse_master_document(doc) # <<>>
    THEN "chapter"
    ELSE "fixed"

\* process(): expansion when scaling_factor > 1.0, else chapter-aligned when
\* enabled; _process_with_chapter_aligned_chunks hands over to the fixed-size
\* path when the structure index has no chapter
select_path(j, doc) ==
    IF ScalingGreater(j, 10) THEN "expansion"
    ELSE IF j.use_chapter_aligned_chunking /\ parse_master_document(doc) # <<>>
    THEN "chapter"
    ELSE "fixed"

\* the spans of a path
path_chunks(p, j, doc) ==
    IF p = "expansion" THEN expansion_segments(j)
    ELSE IF p = "chapter"
    THEN create_chapter_aligned_chunks(parse_master_document(doc), j.original_length)
    ELSE fixed_size_chunks(j.original_length)

\* open(path, "w") raises OSError when the directory cannot be written
write_raises(d) == d.output_dir /\ ~d.writable

\* process() after the structure index is built: the index is saved when
\* output_dir is given, then the path is chosen and the source divided
SelectPath ==
    /\ pc = "select"
    /\ IF write_raises(disk)
       THEN /\ Raise(OSError)
            /\ UNCHANGED <<path, chunks>>
       ELSE LET p == select_path(job, master_document)
            IN /\ path' = p
               /\ IF /\ p = "chapter"
                     /\ create_chapter_aligned_chunks_raises(
                            parse_master_document(master_document),
                            job.original_length)
                  THEN /\ Raise(ZeroDivisionError)
                       /\ UNCHANGED chunks
                  ELSE /\ chunks' = path_chunks(p, job, master_document)
                       /\ pc' = "span"
                       /\ UNCHANGED raised
    /\ NoCallMade
    /\ UNCHANGED <<job, master_document, master_doc_parts, i, retries, success,
                   processed_chunk, retry_instruction, processed_chunks,
                   chunks_info, processed_transcript, result, spanCalls>>
    /\ UNCHANGED world

(* ------------------------- chunk rewriting ---------------------------- *)
Correction(dir, out, diff) == [dir |-> dir, out |-> out, diff |-> diff]

\* an entry of chunks_info; the bounds the output was compared with are kept
\* next to the fields the code writes
Info(chunk_index, original, b, processed_length, flag, is_last) ==
    [chunk_index |-> chunk_index, original_length |-> original,
     target_length |-> b.target, min_target_length |-> b.min,
     max_target_length |-> b.max, processed_length |-> processed_length,
     flag |-> flag, is_last_chunk |-> is_last]

is_last_chunk(k, cs) == k = Len(cs) - 1

\* variant of previous_context that passes the whole previous output
previous_context_whole(k, outputs) ==
    IF k = 0 THEN NoTail
    ELSE TailOf(outputs[Len(outputs)], outputs[Len(outputs)].len)

\* previous_context: nothing for the first span, else the final TailChars
\* characters of the last recorded output
previous_context(k, outputs) ==
    IF k = 0 THEN NoTail ELSE TailOf(outputs[Len(outputs)], TailChars)

\* variant of preserved_original without the notice
preserved_without_notice(k, chunk) ==
    Text("preserved", k, input_length(chunk), <<>>)

\* the text recorded when the simplified call fails too: the notice, a blank
\* line, the source text of the span
preserved_original(k, chunk) ==
    Text("preserved", k, NoticeLen + input_length(chunk), <<>>)

\* the while loop has ended without a validated output
needs_fallback(ok, used) == ~ok /\ used >= max_retries

\* variant of loop_continues that allows one attempt more
loop_continues_once_more(ok, used) == ~ok /\ used <= max_retries

\* the while loop goes on
loop_continues(ok, used) == ~ok /\ used < max_retries

\* variant of Record that records nothing
Record_skips(t, flag) ==
    UNCHANGED <<processed_chunks, chunks_info>>

\* a span's result is recorded: appended to the outputs and to the record
Record(t, flag) ==
    LET chunk == chunks[i + 1]
    IN /\ processed_chunks' = Append(processed_chunks, t)
       /\ chunks_info' = Append(chunks_info,
              Info(i, input_length(chunk), span_budget(path, job, chunk), t.len,
                   flag, is_last_chunk(i, chunks)))

\* the corrective instruction of the next prompt: the chapter-aligned path
\* replaces it, the fixed-size path builds its prompt once and has none
next_retry_instruction(p, old, b, dir, n) ==
    IF p = "chapter" /\ b.target # 0
    THEN <<Correction(dir, n, IF dir = "short" THEN b.min - n ELSE n - b.max)>>
    ELSE old

\* one iteration of the retry loop of a ChunkRewriter path p
RewriteAttempt(p, mainKind) ==
    /\ pc = "span"
    /\ path = p
    /\ loop_continues(success, retries)
    /\ LET chunk == chunks[i + 1]
           b == span_budget(p, job, chunk)
           last == is_last_chunk(i, chunks)
           tail == previous_context(i, processed_chunks)
           sent == IF p = "chapter" THEN retry_instruction ELSE <<>>
       IN \/ \E e \in ProcessLlmExceptions(job) :
               /\ MakeCall(mainKind, i, tail, sent, -1, "raised")
               /\ retries' = retries + 1
               /\ UNCHANGED <<success, processed_chunk, retry_instruction,
                              processed_chunks, chunks_info, pc>>
          \/ /\ ProcessLlmReturns(job)
             /\ MakeCall(mainKind, i, tail, sent, -1, "returned")
             /\ \E n \in AnswerLengths(b) :
                  LET t == Answer("main", i, n, b.max)
                  IN /\ processed_chunk' = t
                     /\ IF too_short(n, b.min)
                        THEN /\ retries' = retries + 1
                             /\ retry_instruction' =
                                  next_retry_instruction(p, retry_instruction, b,
                                                         "short", n)
                             /\ UNCHANGED <<success, processed_chunks,
                                            chunks_info, pc>>
                        ELSE IF too_long(last, n, b.max)
                        THEN /\ retries' = retries + 1
                             /\ retry_instruction' =
                                  next_retry_instruction(p, retry_instruction, b,
                                                         "long", n)
                             /\ UNCHANGED <<success, processed_chunks,
                                            chunks_info, pc>>
                        ELSE /\ success' = TRUE
                             /\ Record(t, "none")
                             /\ pc' = "span_end"
                             /\ UNCHANGED <<retries, retry_instruction>>
    /\ UNCHANGED <<job, master_document, master_doc_parts, path, chunks, i,
                   processed_transcript, result, raised>>
    /\ UNCHANGED world

\* after the loop: one call with the simplified prompt; if it raises, the
\* source text of the span is kept under a notice
RewriteFallback(p, simpleKind) ==
    /\ pc = "span"
    /\ path = p
    /\ needs_fallback(success, retries)
    /\ LET b == span_budget(p, job, chunks[i + 1])
       IN \/ \E e \in ProcessLlmExceptions(job) :
               LET t == preserved_original(i, chunks[i + 1])
               IN /\ MakeCall(simpleKind, i, NoTail, <<>>, -1, "raised")
                  /\ processed_chunk' = t
                  /\ Record(t, "preserved_original")
          \/ /\ ProcessLlmReturns(job)
             /\ MakeCall(simpleKind, i, NoTail, <<>>, -1, "returned")
             /\ \E n \in GenLengths(b.min, b.max) :
                  LET t == Answer("simple", i, n, b.max)
                  IN /\ processed_chunk' = t
                     /\ Record(t, "simplified")
    /\ pc' = "span_end"
    /\ UNCHANGED <<job, master_document, master_doc_parts, path, chunks, i,
                   retries, success, retry_instruction,
                   processed_transcript, result, raised>>
    /\ UNCHANGED world

ChapterAlignedAttempt == RewriteAttempt("chapter", "chapter_main")

ChapterAlignedFallback == RewriteFallback("chapter", "chapter_simple")

FixedSizeAttempt == RewriteAttempt("fixed", "fixed_main")

FixedSizeFallback == RewriteFallback("fixed", "fixed_simple")

(* ------------------------ expansion rewriting ------------------------- *)
\* the continuity text of the expansion prompt: the final ExpansionTailChars
\* characters of previous_chapter, when there is one
expansion_context(outputs) ==
    IF outputs = <<>> THEN NoTail
    ELSE IF outputs[Len(outputs)].len = 0 THEN NoTail
    ELSE TailOf(outputs[Len(outputs)], ExpansionTailChars)

\* the chapter written when no attempt returned any text
placeholder_chapter(k, chunk) ==
    Text("placeholder", k, PlaceholderPrefixLen + input_length(chunk), <<0>>)

\* one iteration of the retry loop of _process_with_expansion_chapters; the
\* prompt grows by one corrective sentence per rejected output; a validated
\* chapter is recorded at once
ExpansionAttempt ==
    /\ pc = "span"
    /\ path = "expansion"
    /\ loop_continues(success, retries)
    /\ LET b == expansion_budget
           last == is_last_chunk(i, chunks)
           tail == expansion_context(processed_chunks)
       IN \/ \E e \in ProcessLlmExceptions(job) :
               /\ MakeCall("expansion_main", i, tail, retry_instruction, -1, "raised")
               /\ retries' = retries + 1
               /\ UNCHANGED <<success, processed_chunk, retry_instruction,
                              processed_chunks, chunks_info, pc>>
          \/ /\ ProcessLlmReturns(job)
             /\ MakeCall("expansion_main", i, tail, retry_instruction, -1,
                         "returned")
             /\ \E n \in ExpansionGenLengths(b.min, b.max) :
                  LET t == Answer("main", i, n, b.max)
                  IN /\ processed_chunk' = t
                     /\ IF too_short(n, b.min)
                        THEN /\ retries' = retries + 1
                             /\ retry_instruction' = Append(retry_instruction,
                                    Correction("short", n, b.min - n))
                             /\ UNCHANGED <<success, processed_chunks,
                                            chunks_info, pc>>
                        ELSE IF expansion_too_long(last, n, b.max)
                        THEN /\ retries' = retries + 1
                             /\ retry_instruction' = Append(retry_instruction,
                                    Correction("long", n, n - b.max))
                             /\ UNCHANGED <<success, processed_chunks,
                                            chunks_info, pc>>
                        ELSE /\ success' = TRUE
                             /\ Record(t, "none")
                             /\ pc' = "span_end"
                             /\ UNCHANGED <<retries, retry_instruction>>
    /\ UNCHANGED <<job, master_document, master_doc_parts, path, chunks, i,
                   processed_transcript, result, raised>>
    /\ UNCHANGED world

\* after the loop without a validated chapter: the last text obtained is used
\* as it is; without any text the placeholder is written
ExpansionExhausted ==
    /\ pc = "span"
    /\ path = "expansion"
    /\ needs_fallback(success, retries)
    /\ LET t == IF processed_chunk.len > 0 THEN processed_chunk
                ELSE placeholder_chapter(i, chunks[i + 1])
       IN /\ processed_chunk' = t
          /\ Record(t, "all_retries_failed")
    /\ pc' = "span_end"
    /\ NoCallMade
    /\ UNCHANGED <<job, master_document, master_doc_parts, path, chunks, i,
                   retries, success, retry_instruction,
                   processed_transcript, result, raised,
                   spanCalls>>
    /\ UNCHANGED world

\* variant of EndSpan that does not move to the next span
EndSpan_keeps_index ==
    /\ pc = "span_end"
    /\ retries' = 0
    /\ success' = FALSE
    /\ processed_chunk' = NoText
    /\ retry_instruction' = <<>>
    /\ spanCalls' = 0
    /\ pc' = IF i + 1 < Len(chunks) THEN "span" ELSE "join"
    /\ NoCallMade
    /\ UNCHANGED <<job, master_document, master_doc_parts, path, chunks, i,
                   processed_chunks, chunks_info,
                   processed_transcript, result, raised>>
    /\ UNCHANGED world

\* the end of one iteration of the span loop
EndSpan ==
    /\ pc = "span_end"
    /\ i' = i + 1
    /\ retries' = 0
    /\ success' = FALSE
    /\ processed_chunk' = NoText
    /\ retry_instruction' = <<>>
    /\ spanCalls' = 0
    /\ pc' = IF i + 1 < Len(chunks) THEN "span" ELSE "join"
    /\ NoCallMade
    /\ UNCHANGED <<job, master_document, master_doc_parts, path, chunks,
                   processed_chunks, chunks_info,
                   processed_transcript, result, raised>>
    /\ UNCHANGED world

(* ----------------------- joining and final trim ----------------------- *)
\* the two ChunkRewriter paths clean the joined text up with
\* re.sub(r"\n{3,}", "\n\n", ...), the expansion path does not
cleans_up(p) == p # "expansion"

\* the characters between two joined parts: "\n\n"; where the part before
\* ends with a newline the run of three newlines is cut back to two by the
\* clean-up
separator_length(prev, collapse) ==
    IF collapse /\ prev.nl >= 1 THEN 1 ELSE 2

\* the joined text: its length, the offsets of its chapter-heading lines,
\* and the outputs it is made of, in order
Joined(parts, len, heads) ==
    [src |-> "final", span |-> Len(parts), len |-> len, heads |-> heads,
     nl |-> IF parts = <<>> THEN 0 ELSE parts[Len(parts)].nl,
     of |-> parts]

\* "\n\n".join(parts): the lengths add up with the separators, the
\* chapter-heading offsets of a part are shifted by the part's offset
RECURSIVE JoinFrom(_, _, _, _, _)
JoinFrom(parts, k, len, heads, collapse) ==
    IF k > Len(parts) THEN Joined(parts, len, heads)
    ELSE LET off == IF k = 1 THEN 0
                    ELSE len + separator_length(parts[k - 1], collapse)
             shifted == [h \in 1..Len(parts[k].heads) |-> off + parts[k].heads[h]]
         IN JoinFrom(parts, k + 1, off + parts[k].len, heads \o shifted, collapse)

\* variant of Join that leaves the last part out
Join_without_last(parts, collapse) ==
    JoinFrom(SubSeq(parts, 1, Len(parts) - 1), 1, 0, <<>>, collapse)

Join(parts, collapse) == JoinFrom(parts, 1, 0, <<>>, collapse)

\* the record file at the end of a rewriting path: the fixed-size path
\* writes chunks_info.json and the expansion path expansion_chunks_info.json
\* when the job has an output directory; the chapter-aligned path writes no
\* record file
save_chunks_info(p, d, info) ==
    IF p \in {"fixed", "expansion"} /\ d.output_dir
    THEN [d EXCEPT !.info_written = TRUE, !.info = info]
    ELSE d

\* the end of a rewriting path: the record file is written, the recorded
\* outputs are joined and the joined text alone is returned to process()
JoinOutputs ==
    /\ pc = "join"
    /\ disk' = save_chunks_info(path, disk, chunks_info)
    /\ processed_transcript' = Join(processed_chunks, cleans_up(path))
    /\ pc' = "trim"
    /\ NoCallMade
    /\ UNCHANGED <<job, master_document, master_doc_parts, path, chunks, i,
                   retries, success, processed_chunk, retry_instruction,
                   processed_chunks, chunks_info, result, raised, spanCalls>>
    /\ UNCHANGED <<environ, run, llm, store, fetch>>

\* variant of chapter_size that measures every chapter to the end of the text
chapter_size_to_end(text, k) == text.len - text.heads[k]

\* chapters[k]['size'] of the trim: from the k-th heading to the next one, or
\* to the end of the text
chapter_size(text, k) ==
    (IF k < Len(text.heads) THEN text.heads[k + 1] ELSE text.len) - text.heads[k]

\* variant of chapters_to_keep that removes one chapter at most
chapters_to_keep_one_step(text, keep, trimmed_length, max_acceptable_length) ==
    IF trimmed_length > max_acceptable_length /\ keep > 1 THEN keep - 1 ELSE keep

\* the loop removing whole chapters from the end: returns chapters_to_keep
RECURSIVE chapters_to_keep(_, _, _, _)
chapters_to_keep(text, keep, trimmed_length, max_acceptable_length) ==
    IF trimmed_length > max_acceptable_length /\ keep > 1
    THEN chapters_to_keep(text, keep - 1, trimmed_length - chapter_size(text, keep),
                          max_acceptable_length)
    ELSE keep

\* the same loop: returns the trimmed_length it has computed
RECURSIVE trimmed_length(_, _, _, _)
trimmed_length(text, keep, tracked, max_acceptable_length) ==
    IF tracked > max_acceptable_length /\ keep > 1
    THEN trimmed_length(text, keep - 1, tracked - chapter_size(text, keep),
                        max_acceptable_length)
    ELSE tracked

\* variant of prefix_before_heading that cuts one chapter earlier
prefix_before_previous_heading(text, keep) ==
    [text EXCEPT !.len = text.heads[keep],
                 !.heads = SubSeq(text.heads, 1, keep),
                 !.nl = 1]

\* processed_transcript[:pos] where pos is the start of a chapter-heading
\* line after the first: the text up to the newline before that line
prefix_before_heading(text, keep) ==
    [text EXCEPT !.len = text.heads[keep + 1],
                 !.heads = SubSeq(text.heads, 1, keep),
                 !.nl = 1]

\* variant of final_trim that cuts a text with fewer than two headings at the
\* maximum acceptable length
final_trim_cuts_anywhere(text, expected_length) ==
    LET max_acceptable_length == expected_length + OverageAllowance
        keep == chapters_to_keep(text, Len(text.heads), text.len,
                                 max_acceptable_length)
    IN IF text.len > max_acceptable_length /\ Len(text.heads) > 1
             /\ keep < Len(text.heads)
       THEN prefix_before_heading(text, keep)
       ELSE IF text.len > max_acceptable_length
       THEN [text EXCEPT !.len = max_acceptable_length]
       ELSE text

\* the final length check of process()
final_trim(text, expected_length) ==
    LET max_acceptable_length == expected_length + OverageAllowance
        keep == chapters_to_keep(text, Len(text.heads), text.len,
                                 max_acceptable_length)
    IN IF text.len > max_acceptable_length /\ Len(text.heads) > 1
             /\ keep < Len(text.heads)
       THEN prefix_before_heading(text, keep)
       ELSE text

\* the final length check and the return of process()
ReturnResult ==
    /\ pc = "trim"
    /\ result' = final_trim(processed_transcript, target_length(job))
    /\ pc' = "done"
    /\ NoCallMade
    /\ UNCHANGED <<job, master_document, master_doc_parts, path, chunks, i,
                   retries, success, processed_chunk, retry_instruction,
                   processed_chunks, chunks_info, processed_transcript, raised,
                   spanCalls>>
    /\ UNCHANGED world

Next ==
    \/ CreateMasterDocumentSingle
    \/ CreateMasterDocumentWindow
    \/ CreateMasterDocumentForExpansion
    \/ SelectPath
    \/ ChapterAlignedAttempt
    \/ ChapterAlignedFallback
    \/ FixedSizeAttempt
    \/ FixedSizeFallback
    \/ ExpansionAttempt
    \/ ExpansionExhausted
    \/ EndSpan
    \/ JoinOutputs
    \/ ReturnResult

Spec == Init /\ [][Next]_vars

(* ---------------- the final trim on long recorded outputs -------------- *)
\* a recorded output of the simplified call for span k: one of two lengths,
\* with no chapter heading, one at its start, one after some introductory
\* text, or one at its start and one in its middle; it may end with a newline
TrimHeads(n) == {<<>>, <<0>>, <<Preamble>>, <<0, n \div 2>>}

TrimOutputs(k) ==
    UNION {{[src |-> "simple", span |-> k, len |-> n, heads |-> h, nl |-> e] :
              h \in TrimHeads(n), e \in {0, 1}} :
           n \in {TrimShortLen, TrimLongLen}}

\* the jobs of the fixed-size path
TrimJobs ==
    {j \in JobInputs :
        /\ j.api_key
        /\ ~j.use_chapter_aligned_chunking
        /\ target_length(j) <= j.original_length
        /\ j.master_doc_max_size = master_doc_max_size}

\* the state of a fixed-size job after its span loop, when every span went
\* through the simplified call and the Generator answered with long texts
TrimInit ==
    /\ job \in TrimJobs
    /\ pc = "join"
    /\ master_document = Doc("single", <<>>, <<>>)
    /\ master_doc_parts = <<>>
    /\ path = "fixed"
    /\ chunks = fixed_size_chunks(job.original_length)
    /\ i = Len(chunks)
    /\ retries = 0
    /\ success = FALSE
    /\ processed_chunk = NoText
    /\ retry_instruction = <<>>
    /\ processed_chunks \in
          {s \in [1..Len(chunks) -> UNION {TrimOutputs(k) : k \in 0..Len(chunks) - 1}] :
              \A k \in 1..Len(chunks) : s[k].span = k - 1}
    /\ chunks_info =
          [k \in 1..Len(chunks) |->
              Info(k - 1, input_length(chunks[k]),
                   span_budget("fixed", job, chunks[k]), processed_chunks[k].len,
                   "simplified", is_last_chunk(k - 1, chunks))]
    /\ processed_transcript = NoText
    /\ result = NoText
    /\ raised = "none"
    /\ call = NoCall
    /\ spanCalls = 0
    /\ backendCalled = TRUE
    /\ WorldInit(TRUE)

TrimNext ==
    \/ JoinOutputs
    \/ ReturnResult

TrimSpec == TrimInit /\ [][TrimNext]_vars

(* ------------- span planning on more sources and outlines -------------- *)
PlanLengths == {PlanShortSource, PlanMidSource, PlanLongSource}

\* the heading numbers of an outline, in the order they appear in it
PlanHeadings ==
    UNION {[1..n -> 0..PlanMaxNumber] : n \in 0..PlanMaxChapters}

\* jobs that do not expand, with the credential present
PlanJobs ==
    {[original_length |-> L, length_in_chars |-> c,
      use_chapter_aligned_chunking |-> u,
      master_doc_max_size |-> master_doc_max_size, api_key |-> TRUE] :
        L \in PlanLengths, c \in {NoLength}, u \in BOOLEAN}

\* the state of a job after the single structure-index call has returned
PlanInit ==
    /\ job \in PlanJobs
    /\ pc = "select"
    /\ \E h \in PlanHeadings : master_document = Doc("single", h, <<>>)
    /\ master_doc_parts = <<>>
    /\ path = "none"
    /\ chunks = <<>>
    /\ i = 0
    /\ retries = 0
    /\ success = FALSE
    /\ processed_chunk = NoText
    /\ retry_instruction = <<>>
    /\ processed_chunks = <<>>
    /\ chunks_info = <<>>
    /\ processed_transcript = NoText
    /\ result = NoText
    /\ raised = "none"
    /\ call = [kind |-> "master_single", span |-> -1, tail |-> NoTail,
               retry |-> <<>>, last_chapter_num |-> -1, outcome |-> "returned"]
    /\ spanCalls = 0
    /\ backendCalled = TRUE
    /\ WorldInit(job.api_key)

PlanNext == SelectPath

PlanSpec == PlanInit /\ [][PlanNext]_vars

(* ====================================================================== *)
(* The span loop of the two ChunkRewriter paths on sources whose lengths  *)
(* are not multiples of ten, with every kind of configured length         *)
(* ====================================================================== *)
BudgetShortSource == 7
BudgetLongSource == 25003

BudgetLengths == {BudgetShortSource, BudgetLongSource}

\* config["ai"]["length_in_chars"]: absent, zero, a third of the source, the
\* length of the source
BudgetTargets(L) == {NoLength, 0, L \div 3, L}

BudgetJobs ==
    {[original_length |-> L, length_in_chars |-> c,
      use_chapter_aligned_chunking |-> u,
      master_doc_max_size |-> master_doc_max_size, api_key |-> TRUE] :
        L \in BudgetLengths, c \in UNION {BudgetTargets(M) : M \in BudgetLengths},
        u \in BOOLEAN}

\* the outlines of the structure index: none, one or two chapters
BudgetHeadings == {<<>>, <<1>>, <<1, 2>>}

\* the state of a job after the single structure-index call has returned
BudgetInit ==
    /\ job \in {j \in BudgetJobs :
                   j.length_in_chars \in BudgetTargets(j.original_length)}
    /\ pc = "select"
    /\ \E h \in BudgetHeadings : master_document = Doc("single", h, <<>>)
    /\ master_doc_parts = <<>>
    /\ path = "none"
    /\ chunks = <<>>
    /\ i = 0
    /\ retries = 0
    /\ success = FALSE
    /\ processed_chunk = NoText
    /\ retry_instruction = <<>>
    /\ processed_chunks = <<>>
    /\ chunks_info = <<>>
    /\ processed_transcript = NoText
    /\ result = NoText
    /\ raised = "none"
    /\ call = [kind |-> "master_single", span |-> -1, tail |-> NoTail,
               retry |-> <<>>, last_chapter_num |-> -1, outcome |-> "returned"]
    /\ spanCalls = 0
    /\ backendCalled = TRUE
    /\ WorldInit(job.api_key)

BudgetNext ==
    \/ SelectPath
    \/ ChapterAlignedAttempt
    \/ ChapterAlignedFallback
    \/ FixedSizeAttempt
    \/ FixedSizeFallback
    \/ EndSpan

BudgetSpec == BudgetInit /\ [][BudgetNext]_vars

(* ====================================================================== *)
(* The Generator adapter process_llm (litellm_processing.py) and the jobs *)
(* of one process (ai_processor.process_transcript, ChunkedProcessor      *)
(* .process): llm follows one call of process_llm through its key check,  *)
(* its mock branch and its retry loop; run follows the jobs started one   *)
(* after the other in the same process.                                   *)
(* ====================================================================== *)
MaxJobs == 2
MaxJobCalls == 2
MaxAttempts == 3
ShortContext == 40
LongContext == 250

MockHeadChars == 100

\* the models of the calls: one of a known provider, one of no known provider
Models == {"gemini-2.0-flash-lite", "custom-model"}

\* the texts sent: told apart by their first characters
Contexts == {[text |-> "a", len |-> ShortContext],
             [text |-> "b", len |-> LongContext]}

\* what the backend fails with
BackendErrors == {"RateLimitError", "APIConnectionError"}

\* how a job is started: through process_transcript, or by calling
\* ChunkedProcessor.process (process_large_transcript) directly
Entries == {"process_transcript", "process"}

\* _format_model_name: a Gemini model gets the prefix of its provider
format_model_name(model) ==
    IF model = "gemini-2.0-flash-lite" THEN "gemini/gemini-2.0-flash-lite"
    ELSE model

\* _check_api_key_for_model: a model of a known provider needs the key of
\* that provider, any other model passes
key_missing(env, model) == model = "gemini-2.0-flash-lite" /\ ~env.API_KEY

\* f"Mock processed text using {formatted_model}: {context[:100]}..."
mock_text(model, context) ==
    [src |-> "mock", model |-> format_model_name(model),
     head |-> [of |-> context.text, len |-> Min(context.len, MockHeadChars)],
     attempt |-> 0]

\* the text of the response of a backend attempt
backend_text(attempt) ==
    [src |-> "backend", model |-> "none", head |-> "none", attempt |-> attempt]

\* process_transcript: mock_mode sets the switch in os.environ, and nothing
\* resets it; ChunkedProcessor.process: mock_mode replaces the ai_processor
\* argument, which no call uses
StartJob ==
    /\ run.pc = "idle"
    /\ run.jobs < MaxJobs
    /\ \E entry \in Entries, mock_mode \in BOOLEAN :
         /\ run' = [pc |-> "running", entry |-> entry, mock_mode |-> mock_mode,
                    jobs |-> run.jobs + 1, calls |-> 0]
         /\ environ' = IF entry = "process_transcript" /\ mock_mode
                       THEN [environ EXCEPT !.MOCK_LLM_API = TRUE]
                       ELSE environ
    /\ llm' = NoLlm
    /\ UNCHANGED <<store, fetch, disk, jobVars>>

\* the job calls process_llm
CallProcessLlm ==
    /\ run.pc = "running"
    /\ llm.pc \in {"idle", "returned", "raised"}
    /\ run.calls < MaxJobCalls
    /\ run' = [run EXCEPT !.calls = run.calls + 1]
    /\ \E context \in Contexts, model \in Models, max_retries_arg \in 0..MaxAttempts :
         llm' = [NoLlm EXCEPT !.pc = "check", !.context = context,
                              !.model = model, !.max_retries = max_retries_arg]
    /\ UNCHANGED <<environ, store, fetch, disk, jobVars>>

\* the job ends
FinishJob ==
    /\ run.pc = "running"
    /\ llm.pc \in {"idle", "returned", "raised"}
    /\ run' = [run EXCEPT !.pc = "idle"]
    /\ llm' = NoLlm
    /\ UNCHANGED <<environ, store, fetch, disk, jobVars>>

\* the start of process_llm: the key check, then the mock branch
CheckApiKey ==
    /\ llm.pc = "check"
    /\ llm' = IF key_missing(environ, llm.model)
              THEN [llm EXCEPT !.pc = "raised", !.raised = ValueError]
              ELSE IF environ.MOCK_LLM_API
              THEN [llm EXCEPT !.pc = "returned",
                               !.result = mock_text(llm.model, llm.context)]
              ELSE [llm EXCEPT !.pc = "attempt"]
    /\ UNCHANGED <<environ, run, store, fetch, disk, jobVars>>

\* variant of attempt_allowed that allows one attempt more
attempt_allowed_once_more(retry_count, max_retries_arg) ==
    retry_count <= max_retries_arg

\* while retry_count < max_retries
attempt_allowed(retry_count, max_retries_arg) == retry_count < max_retries_arg

\* one iteration of the retry loop: the response is returned, or the error
\* is kept and counted
BackendAttempt ==
    /\ llm.pc = "attempt"
    /\ attempt_allowed(llm.retry_count, llm.max_retries)
    /\ \/ llm' = [llm EXCEPT !.pc = "returned",
                             !.result = backend_text(Len(llm.errors) + 1)]
       \/ \E e \in BackendErrors :
            llm' = [llm EXCEPT !.last_error = e,
                               !.retry_count = llm.retry_count + 1,
                               !.errors = Append(llm.errors, e)]
    /\ UNCHANGED <<environ, run, store, fetch, disk, jobVars>>

\* os.environ.get("LLM_FALLBACK_ENABLED") == "true" and
\* os.environ.get("LLM_FALLBACK_MODEL")
fallback_configured(env) == env.LLM_FALLBACK_ENABLED

\* process_llm(text=context, ...): process_llm has no parameter text, the
\* call raises before the body of process_llm starts, so that it makes no
\* backend attempt with the fallback model
fallback_call(l) == [l EXCEPT !.fallback_raised = TypeError]

\* after the loop: with a fallback configured the call of the fallback
\* model is made, its exception is logged and dropped; then the last error
\* is raised again
RetriesExhausted ==
    /\ llm.pc = "attempt"
    /\ ~attempt_allowed(llm.retry_count, llm.max_retries)
    /\ LET l == IF fallback_configured(environ) THEN fallback_call(llm)
                ELSE llm
       IN llm' = [l EXCEPT !.pc = "raised",
                           !.raised = IF llm.last_error # "none"
                                      THEN llm.last_error ELSE "Exception"]
    /\ UNCHANGED <<environ, run, store, fetch, disk, jobVars>>

AdapterInit ==
    /\ job \in {j \in JobInputs : j.original_length = SourceUnit
                                     /\ j.length_in_chars = NoLength
                                     /\ j.use_chapter_aligned_chunking}
    /\ pc = "master"
    /\ master_document = NoDoc
    /\ master_doc_parts = <<>>
    /\ path = "none"
    /\ chunks = <<>>
    /\ i = 0
    /\ retries = 0
    /\ success = FALSE
    /\ processed_chunk = NoText
    /\ retry_instruction = <<>>
    /\ processed_chunks = <<>>
    /\ chunks_info = <<>>
    /\ processed_transcript = NoText
    /\ result = NoText
    /\ raised = "none"
    /\ call = NoCall
    /\ spanCalls = 0
    /\ backendCalled = FALSE
    /\ \E fallback \in BOOLEAN : environ = Environ(job.api_key, fallback)
    /\ run = NoRun
    /\ llm = NoLlm
    /\ store = NoStore
    /\ fetch = NoFetch
    /\ disk = NoDisk

AdapterNext ==
    \/ StartJob
    \/ CallProcessLlm
    \/ FinishJob
    \/ CheckApiKey
    \/ BackendAttempt
    \/ RetriesExhausted

AdapterSpec == AdapterInit /\ [][AdapterNext]_vars

(* ====================================================================== *)
(* Jobs with an output directory, from the saving of the structure index  *)
(* on: the directory is writable, or has stopped being so.                *)
(* ====================================================================== *)
Disks == {NoDisk, [NoDisk EXCEPT !.output_dir = TRUE],
          [NoDisk EXCEPT !.output_dir = TRUE, !.writable = FALSE]}

\* the state of a job after _create_master_document has returned
ArtifactInit ==
    /\ job \in {j \in BudgetJobs : j.length_in_chars = NoLength}
    /\ pc = "select"
    /\ \E h \in BudgetHeadings : master_document = Doc("single", h, <<>>)
    /\ master_doc_parts = <<>>
    /\ path = "none"
    /\ chunks = <<>>
    /\ i = 0
    /\ retries = 0
    /\ success = FALSE
    /\ processed_chunk = NoText
    /\ retry_instruction = <<>>
    /\ processed_chunks = <<>>
    /\ chunks_info = <<>>
    /\ processed_transcript = NoText
    /\ result = NoText
    /\ raised = "none"
    /\ call = [kind |-> "master_single", span |-> -1, tail |-> NoTail,
               retry |-> <<>>, last_chapter_num |-> -1, outcome |-> "returned"]
    /\ spanCalls = 0
    /\ backendCalled = TRUE
    /\ environ = Environ(job.api_key, FALSE)
    /\ run = NoRun
    /\ llm = NoLlm
    /\ store = NoStore
    /\ fetch = NoFetch
    /\ disk \in Disks

ArtifactNext ==
    \/ SelectPath
    \/ ChapterAlignedAttempt
    \/ ChapterAlignedFallback
    \/ FixedSizeAttempt
    \/ FixedSizeFallback
    \/ EndSpan
    \/ JoinOutputs

ArtifactSpec == ArtifactInit /\ [][ArtifactNext]_vars

(* ====================================================================== *)
(* The division of the source on the expansion path, for jobs whose       *)
(* configured length is several times the source length.                   *)
(* ====================================================================== *)
\* len(transcript_text)
ExpansionSources == 7780..7840

\* config["ai"]["length_in_chars"]: two, three, five and seven chapters
ExpansionTargets == {k * max_chapter_size : k \in {2, 3, 5, 7}}

ExpansionJobs ==
    {[original_length |-> L, length_in_chars |-> c,
      use_chapter_aligned_chunking |-> TRUE,
      master_doc_max_size |-> master_doc_max_size, api_key |-> TRUE] :
        L \in ExpansionSources, c \in ExpansionTargets}

\* the state of a job after _create_master_document_for_expansion has
\* returned, every topic outline generated
ExpansionInit ==
    /\ job \in ExpansionJobs
    /\ pc = "select"
    /\ master_document =
          Doc("expansion", UpTo(required_chapters(job)) \o <<1>>,
              [k \in 1..required_chapters(job) |-> "generated"])
    /\ master_doc_parts = [k \in 1..required_chapters(job) |-> "generated"]
    /\ path = "none"
    /\ chunks = <<>>
    /\ i = 0
    /\ retries = 0
    /\ success = FALSE
    /\ processed_chunk = NoText
    /\ retry_instruction = <<>>
    /\ processed_chunks = <<>>
    /\ chunks_info = <<>>
    /\ processed_transcript = NoText
    /\ result = NoText
    /\ raised = "none"
    /\ call = [kind |-> "topic_outline", span |-> required_chapters(job) - 1,
               tail |-> NoTail, retry |-> <<>>, last_chapter_num |-> -1,
               outcome |-> "returned"]
    /\ spanCalls = 0
    /\ backendCalled = TRUE
    /\ WorldInit(job.api_key)

ExpansionNext == SelectPath

ExpansionSpec == ExpansionInit /\ [][ExpansionNext]_vars

(* ====================================================================== *)
(* TranscriptManager (fetch_and_store.py)                                 *)
(*                                                                        *)
(* Jobs of fetch_and_store_transcript run in one transcripts directory.   *)
(* store.clock counts ticks of datetime.now(); a job is [video_id, pc,    *)
(* video_dir, written]; store.files maps each file written to the job     *)
(* that wrote it last, store.overwritten holds the files that held        *)
(* another job's data when they were opened with mode 'w'.                *)
(* ====================================================================== *)
MaxStoreJobs == 2

MaxClock == 3

\* ticks of the clock in one second
TicksPerSecond == 2

VideoIds == {"dQw4w9WgXcQ", "9bZkp7q19f0"}

\* the files fetch_and_store_transcript writes, in the order it writes them
StoredFiles == <<"raw/transcript.json", "raw/transcript.txt", "metadata.json">>

\* datetime.now().strftime("%Y%m%d_%H%M%S"): the clock cut to whole seconds
strftime_seconds(clock) == clock \div TicksPerSecond

\* video_dir_name = f"{video_id}_{timestamp}"
video_dir_name(video_id, clock) ==
    [video_id |-> video_id, timestamp |-> strftime_seconds(clock)]

\* the state every run of ChunkedProcessor.process starts from; the jobs of
\* the TranscriptManager and the calls of fetch_transcript never enter it
JobNotStarted ==
    /\ job \in {j \in JobInputs : j.original_length = SourceUnit
                                     /\ j.length_in_chars = NoLength
                                     /\ j.use_chapter_aligned_chunking
                                     /\ j.api_key}
    /\ pc = "master"
    /\ master_document = NoDoc
    /\ master_doc_parts = <<>>
    /\ path = "none"
    /\ chunks = <<>>
    /\ i = 0
    /\ retries = 0
    /\ success = FALSE
    /\ processed_chunk = NoText
    /\ retry_instruction = <<>>
    /\ processed_chunks = <<>>
    /\ chunks_info = <<>>
    /\ processed_transcript = NoText
    /\ result = NoText
    /\ raised = "none"
    /\ call = NoCall
    /\ spanCalls = 0
    /\ backendCalled = FALSE

\* time passes
ClockTick ==
    /\ store.clock < MaxClock
    /\ store' = [store EXCEPT !.clock = store.clock + 1]
    /\ UNCHANGED <<environ, run, llm, fetch, disk, jobVars>>

\* fetch_and_store_transcript up to the call of setup_video_directory: the
\* transcript of the video has been fetched
FetchForStore ==
    /\ Len(store.jobs) < MaxStoreJobs
    /\ \E video_id \in VideoIds :
         store' = [store EXCEPT !.jobs = Append(store.jobs,
                       [video_id |-> video_id, pc |-> "fetched",
                        video_dir |-> NoDir, written |-> 0])]
    /\ UNCHANGED <<environ, run, llm, fetch, disk, jobVars>>

\* setup_video_directory: the name is built from the clock, and makedirs
\* with exist_ok=True accepts a directory that is already there
SetupVideoDirectory ==
    /\ \E j \in DOMAIN store.jobs :
         /\ store.jobs[j].pc = "fetched"
         /\ LET video_dir == video_dir_name(store.jobs[j].video_id, store.clock)
            IN store' = [store EXCEPT !.jobs[j].pc = "storing",
                                      !.jobs[j].video_dir = video_dir,
                                      !.dirs = store.dirs \cup {video_dir}]
    /\ UNCHANGED <<environ, run, llm, fetch, disk, jobVars>>

\* one open(path, 'w') and write of fetch_and_store_transcript; after the
\* third file the job returns
WriteStoredFile ==
    /\ \E j \in DOMAIN store.jobs :
         /\ store.jobs[j].pc = "storing"
         /\ LET me == store.jobs[j]
                name == StoredFiles[me.written + 1]
                old == {f \in store.files : f.dir = me.video_dir /\ f.name = name}
            IN store' = [store EXCEPT
                   !.jobs[j].written = me.written + 1,
                   !.jobs[j].pc = IF me.written + 1 = Len(StoredFiles)
                                  THEN "done" ELSE "storing",
                   !.files = (store.files \ old)
                               \cup {[dir |-> me.video_dir, name |-> name, by |-> j]},
                   !.overwritten = store.overwritten
                               \cup {[dir |-> f.dir, name |-> f.name] :
                                        f \in {g \in old : g.by # j}}]
    /\ UNCHANGED <<environ, run, llm, fetch, disk, jobVars>>

StoreInit ==
    /\ JobNotStarted
    /\ WorldInit(TRUE)

StoreNext ==
    \/ ClockTick
    \/ FetchForStore
    \/ SetupVideoDirectory
    \/ WriteStoredFile

StoreSpec == StoreInit /\ [][StoreNext]_vars

(* ====================================================================== *)
(* YouTubeTranscriptFetcher.fetch_transcript (youtube_transcript.py)      *)
(*                                                                        *)
(* fetch.sources says what each request of the transcript API answers     *)
(* for the video: a transcript, or the exception it raises.               *)
(* fetch.requests lists the requests made, in order: "preferred" is       *)
(* get_transcript in the preferred language, "listing" is                 *)
(* list_transcripts, "manual" and "generated" are the look-ups of the     *)
(* manually created and of the auto-generated transcript.                 *)
(* ====================================================================== *)
\* the argument: a video id, a URL that holds one, a YouTube URL without one
VideoUrls == {"id", "url", "url_without_id"}

\* what a request for a transcript can answer
SourceAnswers == {"transcript", NoTranscriptFound, TranscriptsDisabled, OtherError}

\* what list_transcripts can answer
ListingAnswers == {"listed", TranscriptsDisabled, OtherError}

\* extract_video_id raises ValueError when no pattern matches
extract_video_id(video_url) ==
    IF video_url = "url_without_id" THEN ValueError ELSE "id"

\* the handlers around the requests: except TranscriptsDisabled raises
\* ValueError, except Exception raises the exception again
raised_by_fetch(e) == IF e = TranscriptsDisabled THEN ValueError ELSE e

\* variant of generated_allowed that ignores the switch
generated_allowed_always(fallback_to_auto) == TRUE

\* if self.fallback_to_auto
generated_allowed(fallback_to_auto) == fallback_to_auto

\* the video id is taken from the argument
ExtractVideoId ==
    /\ fetch.pc = "start"
    /\ fetch' = IF extract_video_id(fetch.video_url) = ValueError
                THEN [fetch EXCEPT !.pc = "raised", !.raised = ValueError]
                ELSE [fetch EXCEPT !.pc = "preferred"]
    /\ UNCHANGED <<environ, run, llm, store, disk, jobVars>>

\* get_transcript(video_id, languages=[preferred_language])
GetPreferredTranscript ==
    /\ fetch.pc = "preferred"
    /\ LET answer == fetch.sources.preferred
           asked == Append(fetch.requests, "preferred")
       IN fetch' = IF answer = "transcript"
                   THEN [fetch EXCEPT !.pc = "returned", !.requests = asked,
                                      !.result = "preferred"]
                   ELSE IF answer = NoTranscriptFound
                   THEN [fetch EXCEPT !.pc = "listing", !.requests = asked]
                   ELSE [fetch EXCEPT !.pc = "raised", !.requests = asked,
                                      !.raised = raised_by_fetch(answer)]
    /\ UNCHANGED <<environ, run, llm, store, disk, jobVars>>

\* list_transcripts(video_id), inside the handler of NoTranscriptFound
ListTranscripts ==
    /\ fetch.pc = "listing"
    /\ LET answer == fetch.sources.listing
           asked == Append(fetch.requests, "listing")
       IN fetch' = IF answer = "listed"
                   THEN [fetch EXCEPT !.pc = "manual", !.requests = asked]
                   ELSE [fetch EXCEPT !.pc = "raised", !.requests = asked,
                                      !.raised = raised_by_fetch(answer)]
    /\ UNCHANGED <<environ, run, llm, store, disk, jobVars>>

\* find_manually_created_transcript().fetch(), then the second look-up for
\* the language code; on NoTranscriptFound with the fall-back switched off
\* the ValueError at the end is raised
FindManuallyCreatedTranscript ==
    /\ fetch.pc = "manual"
    /\ LET answer == fetch.sources.manual
           asked == Append(fetch.requests, "manual")
       IN fetch' = IF answer = "transcript"
                   THEN [fetch EXCEPT !.pc = "returned",
                                      !.requests = Append(asked, "manual"),
                                      !.result = "manual"]
                   ELSE IF answer = NoTranscriptFound
                   THEN IF generated_allowed(fetch.fallback_to_auto)
                        THEN [fetch EXCEPT !.pc = "generated", !.requests = asked]
                        ELSE [fetch EXCEPT !.pc = "raised", !.requests = asked,
                                           !.raised = ValueError]
                   ELSE [fetch EXCEPT !.pc = "raised", !.requests = asked,
                                      !.raised = raised_by_fetch(answer)]
    /\ UNCHANGED <<environ, run, llm, store, disk, jobVars>>

\* find_generated_transcript().fetch(), then the second look-up; on
\* NoTranscriptFound the handler passes and the ValueError at the end is
\* raised
FindGeneratedTranscript ==
    /\ fetch.pc = "generated"
    /\ LET answer == fetch.sources.generated
           asked == Append(fetch.requests, "generated")
       IN fetch' = IF answer = "transcript"
                   THEN [fetch EXCEPT !.pc = "returned",
                                      !.requests = Append(asked, "generated"),
                                      !.result = "generated"]
                   ELSE IF answer = NoTranscriptFound
                   THEN [fetch EXCEPT !.pc = "raised", !.requests = asked,
                                      !.raised = ValueError]
                   ELSE [fetch EXCEPT !.pc = "raised", !.requests = asked,
                                      !.raised = raised_by_fetch(answer)]
    /\ UNCHANGED <<environ, run, llm, store, disk, jobVars>>

FetchInit ==
    /\ JobNotStarted
    /\ environ = Environ(TRUE, FALSE)
    /\ run = NoRun
    /\ llm = NoLlm
    /\ store = NoStore
    /\ disk = NoDisk
    /\ \E video_url \in VideoUrls, fallback_to_auto \in BOOLEAN,
          preferred \in SourceAnswers, listing \in ListingAnswers,
          manual \in SourceAnswers, generated \in SourceAnswers :
         fetch = [NoFetch EXCEPT
                    !.pc = "start", !.video_url = video_url,
                    !.fallback_to_auto = fallback_to_auto,
                    !.sources = [preferred |-> preferred, listing |-> listing,
                                 manual |-> manual, generated |-> generated]]

FetchNext ==
    \/ ExtractVideoId
    \/ GetPreferredTranscript
    \/ ListTranscripts
    \/ FindManuallyCreatedTranscript
    \/ FindGeneratedTranscript

FetchSpec == FetchInit /\ [][FetchNext]_vars

(* ====================================================================== *)
(* TranscriptSegmenter (segmenter.py)                                     *)
(*                                                                        *)
(* A text of the Segmenter is [lead, pieces, trail]: the pieces are       *)
(* runs of characters of the input's paragraphs, [p, from, to] being the  *)
(* characters from .. to-1 of paragraph p; consecutive pieces are         *)
(* separated by a blank line ("\n\n"), and lead and trail count the       *)
(* line-break characters before the first and after the last piece.      *)
(* The inputs are paragraphs of non-blank characters joined by blank      *)
(* lines; job.topic is the paragraph that begins with a topic-change      *)
(* phrase (0: none) and job.stop says whether every paragraph ends with   *)
(* a full stop.                                                           *)
(* ====================================================================== *)
MaxParagraphs == 5
ParaTiny == 5000
ParaSmall == 10000
ParaLarge == 18000
ParaHuge == 30000

min_segment_size == 17000
max_segment_size == 23000
paragraph_break_weight == 3
topic_change_weight == 4
BreakWindow == 1000
BlankLineLen == 2
PunctuationLen == 1

ParagraphLengths == {ParaTiny, ParaSmall, ParaLarge, ParaHuge}

SegJobs ==
    UNION {[paragraphs : [1..n -> ParagraphLengths], topic : 0..n,
            stop : BOOLEAN] : n \in 1..MaxParagraphs}

Piece(p, from, to) == [p |-> p, from |-> from, to |-> to]

SegText(lead, pieces, trail) ==
    [lead |-> lead, pieces |-> pieces, trail |-> trail]

\* the value of a call that returned segs, and of one that raised
Returned(segs) == [raises |-> FALSE, segments |-> segs]

RangeStepZero == [raises |-> TRUE, segments |-> <<>>]

\* "\n\n".join(paragraphs)
join_paragraphs(pieces) == SegText(0, pieces, 0)

\* the offset of piece k in the text made of the pieces alone
RECURSIVE PieceStart(_, _)
PieceStart(pieces, k) ==
    IF k = 1 THEN 0
    ELSE PieceStart(pieces, k - 1)
           + (pieces[k - 1].to - pieces[k - 1].from) + BlankLineLen

PieceEnd(pieces, k) == PieceStart(pieces, k) + (pieces[k].to - pieces[k].from)

\* len(text)
TextLen(t) ==
    t.lead + t.trail
      + (IF t.pieces = <<>> THEN 0 ELSE PieceEnd(t.pieces, Len(t.pieces)))

\* the transcript handed to segment_transcript
transcript_text(j) ==
    join_paragraphs([p \in 1..Len(j.paragraphs) |->
                        Piece(p, 0, j.paragraphs[p])])

\* re.split on blank lines, strip, drop the empty ones
split_into_paragraphs(t) == t.pieces

\* sum(len(p) for p in paragraphs)
RECURSIVE total_length(_)
total_length(paragraphs) ==
    IF paragraphs = <<>> THEN 0
    ELSE (Head(paragraphs).to - Head(paragraphs).from)
           + total_length(Tail(paragraphs))

\* Python's round(a / b): to the nearest integer, a half to the even one
Round(a, b) ==
    LET q == a \div b
        r == a % b
    IN IF 2 * r < b THEN q
       ELSE IF 2 * r > b THEN q + 1
       ELSE IF q % 2 = 0 THEN q ELSE q + 1

ideal_num_segments(paragraphs) ==
    Max(1, Round(total_length(paragraphs), target_segment_size))

\* the score of the boundary before paragraphs[index] (index from 0): the
\* inputs carry no speaker labels, so that only the paragraph break and the
\* topic-change phrase count
boundary_score(j, paragraphs, index) ==
    paragraph_break_weight
      + (IF paragraphs[index + 1].p = j.topic /\ paragraphs[index + 1].from = 0
         THEN topic_change_weight ELSE 0)

\* the indexes of the boundaries: every paragraph but the first
identify_boundaries(paragraphs) == 1..(Len(paragraphs) - 1)

\* the top n boundaries of the stable sort by descending score
top_boundaries(j, paragraphs, n) ==
    {b \in identify_boundaries(paragraphs) :
        Cardinality({c \in identify_boundaries(paragraphs) :
            \/ boundary_score(j, paragraphs, c)
                 > boundary_score(j, paragraphs, b)
            \/ /\ boundary_score(j, paragraphs, c)
                    = boundary_score(j, paragraphs, b)
               /\ c < b}) < n}

\* a set of numbers as an ascending sequence
RECURSIVE Ascending(_)
Ascending(S) ==
    IF S = {} THEN <<>>
    ELSE LET m == CHOOSE x \in S : \A y \in S : x <= y
         IN <<m>> \o Ascending(S \ {m})

\* the selected boundaries by position, followed by the boundary at the end
selected_boundaries(j, paragraphs) ==
    Append(Ascending(top_boundaries(j, paragraphs,
                                    ideal_num_segments(paragraphs) - 1)),
           Len(paragraphs))

\* the loop over the selected boundaries: a group of paragraphs becomes a
\* segment when it is long enough or when it is the first one; otherwise the
\* start stays where it is and the group is extended by the next boundary
RECURSIVE group_paragraphs(_, _, _, _, _)
group_paragraphs(paragraphs, boundaries, k, start_idx, segments) ==
    IF k > Len(boundaries) THEN segments
    ELSE LET end_idx == boundaries[k]
             segment ==
                 join_paragraphs(SubSeq(paragraphs, start_idx + 1, end_idx))
         IN IF TextLen(segment) >= min_segment_size \/ start_idx = 0
            THEN group_paragraphs(paragraphs, boundaries, k + 1, end_idx,
                                  Append(segments, segment))
            ELSE group_paragraphs(paragraphs, boundaries, k + 1, start_idx,
                                  segments)

\* a last segment that is too small is merged with the one before it
merge_short_last(segments) ==
    IF /\ Len(segments) > 1
       /\ TextLen(segments[Len(segments)]) < min_segment_size
    THEN Append(SubSeq(segments, 1, Len(segments) - 2),
                join_paragraphs(segments[Len(segments) - 1].pieces
                                  \o segments[Len(segments)].pieces))
    ELSE segments

\* text[:position]
Before(t, position) ==
    LET ks == {k \in 1..Len(t.pieces) : PieceStart(t.pieces, k) < position}
        n == Cardinality(ks)
    IN SegText(0,
               [k \in 1..n |->
                   Piece(t.pieces[k].p, t.pieces[k].from,
                         Min(t.pieces[k].to,
                             t.pieces[k].from
                               + (position - PieceStart(t.pieces, k))))],
               position - Min(position, PieceEnd(t.pieces, n)))

\* text[position:]
After(t, position) ==
    LET ks == {k \in 1..Len(t.pieces) : PieceEnd(t.pieces, k) > position}
        first == Len(t.pieces) - Cardinality(ks) + 1
    IN SegText(Max(0, PieceStart(t.pieces, first) - position),
               [k \in 1..Cardinality(ks) |->
                   Piece(t.pieces[first + k - 1].p,
                         Max(t.pieces[first + k - 1].from,
                             t.pieces[first + k - 1].from
                               + (position
                                    - PieceStart(t.pieces, first + k - 1))),
                         t.pieces[first + k - 1].to)],
               0)

\* where the matches of a sentence ending followed by white space end in
\* text[window_start:window_end]: after a piece that ends its paragraph with
\* a full stop, at the start of the next piece or at the end of the window
sentence_endings(j, t, window_start, window_end) ==
    {Min(PieceEnd(t.pieces, k) + BlankLineLen, window_end) :
        k \in {k \in 1..(Len(t.pieces) - 1) :
                  /\ j.stop
                  /\ t.pieces[k].to = j.paragraphs[t.pieces[k].p]
                  /\ PieceEnd(t.pieces, k) - PunctuationLen >= window_start
                  /\ PieceEnd(t.pieces, k) < window_end}}

Distance(a, b) == IF a < b THEN b - a ELSE a - b

\* the sentence ending closest to the target position, the first of them
\* when two are as close; the target position itself when there is none
find_sentence_break(j, t, target_position) ==
    LET window_start == Max(0, target_position - BreakWindow)
        window_end == Min(TextLen(t), target_position + BreakWindow)
        ends == sentence_endings(j, t, window_start, window_end)
    IN IF ends = {} THEN target_position
       ELSE CHOOSE e \in ends :
               \A f \in ends :
                  \/ Distance(e, target_position)
                       < Distance(f, target_position)
                  \/ /\ Distance(e, target_position)
                          = Distance(f, target_position)
                     /\ e <= f

RECURSIVE split_long_segment(_, _)
RECURSIVE split_loop(_, _, _, _, _)
\* the loop of _split_long_segment over range(0, len(paragraphs),
\* paragraphs_per_segment): a group that is too long and not the last one is
\* cut at a sentence break, what follows the cut is split again, and the
\* loop ends there
split_loop(j, paragraphs, paragraphs_per_segment, idx, sub_segments) ==
    IF idx >= Len(paragraphs) THEN Returned(sub_segments)
    ELSE LET sub_segment ==
                 join_paragraphs(
                     SubSeq(paragraphs, idx + 1,
                            Min(idx + paragraphs_per_segment,
                                Len(paragraphs))))
         IN IF /\ idx + paragraphs_per_segment < Len(paragraphs)
               /\ TextLen(sub_segment) > max_segment_size
            THEN LET break_point ==
                         find_sentence_break(j, sub_segment,
                                             target_segment_size)
                     remaining_segments ==
                         split_long_segment(j, After(sub_segment, break_point))
                 IN IF remaining_segments.raises THEN RangeStepZero
                    ELSE Returned(sub_segments
                                    \o <<Before(sub_segment, break_point)>>
                                    \o remaining_segments.segments)
            ELSE split_loop(j, paragraphs, paragraphs_per_segment,
                            idx + paragraphs_per_segment,
                            Append(sub_segments, sub_segment))

\* range() with a step of zero raises ValueError
split_long_segment(j, segment) ==
    IF TextLen(segment) <= max_segment_size THEN Returned(<<segment>>)
    ELSE LET paragraphs == split_into_paragraphs(segment)
             segment_count ==
                 Max(2, CeilDiv(TextLen(segment), target_segment_size))
             paragraphs_per_segment == Len(paragraphs) \div segment_count
         IN IF paragraphs_per_segment = 0 THEN RangeStepZero
            ELSE split_loop(j, paragraphs, paragraphs_per_segment, 0, <<>>)

\* the segments exceeding the maximum size are split
RECURSIVE final_segments(_, _, _, _)
final_segments(j, segments, k, final) ==
    IF k > Len(segments) THEN Returned(final)
    ELSE IF TextLen(segments[k]) > max_segment_size
    THEN LET sub_segments == split_long_segment(j, segments[k])
         IN IF sub_segments.raises THEN RangeStepZero
            ELSE final_segments(j, segments, k + 1,
                                final \o sub_segments.segments)
    ELSE final_segments(j, segments, k + 1, Append(final, segments[k]))

create_segments(j, paragraphs) ==
    IF ideal_num_segments(paragraphs) = 1
    THEN Returned(<<join_paragraphs(paragraphs)>>)
    ELSE final_segments(j,
            merge_short_last(
                group_paragraphs(paragraphs,
                                 selected_boundaries(j, paragraphs),
                                 1, 0, <<>>)),
            1, <<>>)

segment_transcript(j) ==
    IF TextLen(transcript_text(j)) <= target_segment_size
    THEN Returned(<<transcript_text(j)>>)
    ELSE create_segments(j, split_into_paragraphs(transcript_text(j)))

\* one call of segment_transcript: the segments are returned, or the
\* exception of the splitting loop leaves the call
SegmentTranscript ==
    /\ pc = "segment"
    /\ IF segment_transcript(job).raises
       THEN /\ Raise(ValueError)
            /\ UNCHANGED result
       ELSE /\ pc' = "segmented"
            /\ result' = segment_transcript(job).segments
            /\ UNCHANGED raised
    /\ UNCHANGED <<job, master_document, master_doc_parts, path, chunks, i,
                   retries, success, processed_chunk, retry_instruction,
                   processed_chunks, chunks_info, processed_transcript,
                   call, spanCalls, backendCalled>>
    /\ UNCHANGED world

SegInit ==
    /\ job \in SegJobs
    /\ pc = "segment"
    /\ master_document = NoDoc
    /\ master_doc_parts = <<>>
    /\ path = "none"
    /\ chunks = <<>>
    /\ i = 0
    /\ retries = 0
    /\ success = FALSE
    /\ processed_chunk = NoText
    /\ retry_instruction = <<>>
    /\ processed_chunks = <<>>
    /\ chunks_info = <<>>
    /\ processed_transcript = NoText
    /\ result = <<>>
    /\ raised = "none"
    /\ call = NoCall
    /\ spanCalls = 0
    /\ backendCalled = FALSE
    /\ WorldInit(TRUE)

SegNext == SegmentTranscript

SegSpec == SegInit /\ [][SegNext]_vars

(* ====================================================================== *)
(* Properties                                                             *)
(* ====================================================================== *)
ChunkRewriterPaths == {"chapter", "fixed"}

ChunkRewriterFlags == {"none", "simplified", "preserved_original"}

\* the origin of a recorded text that goes with each flag of the record
FlagOfSrc(src) ==
    IF src = "main" THEN "none"
    ELSE IF src = "simple" THEN "simplified"
    ELSE IF src = "preserved" THEN "preserved_original"
    ELSE "other"

\* C1: on the chapter-aligned and the fixed-size path every span gets exactly
\* one output: the k-th recorded output belongs to span k-1 and comes from
\* exactly one of validation, the simplified call, or the preserved source;
\* while span i is being rewritten exactly i outputs are recorded, after its
\* result i+1, and at the end one per span.
C1_OneOutputPerSpan ==
    path \in ChunkRewriterPaths =>
        /\ Len(chunks_info) = Len(processed_chunks)
        /\ \A k \in 1..Len(processed_chunks) :
              /\ processed_chunks[k].span = k - 1
              /\ chunks_info[k].chunk_index = k - 1
              /\ chunks_info[k].flag \in ChunkRewriterFlags
              /\ chunks_info[k].flag = FlagOfSrc(processed_chunks[k].src)
        /\ pc = "span" => Len(processed_chunks) = i
        /\ pc = "span_end" => Len(processed_chunks) = i + 1
        /\ pc \in {"join", "done"} => Len(processed_chunks) = Len(chunks)

\* a chapter-aligned job of two spans has returned, the first span through
\* the simplified call and the second through validation
C1_Witness ==
    /\ pc = "done"
    /\ path = "chapter"
    /\ Len(chunks) = 2
    /\ chunks_info[1].flag = "simplified"
    /\ chunks_info[2].flag = "none"

\* C2: when no main attempt of a span returned a text and the simplified
\* call raises too, the step records the failure notice followed by the
\* source text of the span, flags the record as original-preserved, and goes
\* on to the end of the span; an exception leaves the job only before any
\* span is rewritten.
C2_AllCallsFailPreserved ==
    /\ [](raised # "none" => (processed_chunks = <<>> /\ spanCalls = 0 /\ i = 0))
    /\ [][(/\ pc = "span"
           /\ path \in ChunkRewriterPaths
           /\ retries >= 3
           /\ processed_chunk = NoText
           /\ call'.kind \in {"chapter_simple", "fixed_simple"}
           /\ call'.outcome = "raised")
          => (/\ pc' = "span_end"
              /\ raised' = "none"
              /\ processed_chunks' = Append(processed_chunks,
                     [src |-> "preserved", span |-> i,
                      len |-> 67 + (chunks[i + 1].end_char - chunks[i + 1].start_char),
                      heads |-> <<>>, nl |-> 0])
              /\ Len(chunks_info') = Len(chunks_info) + 1
              /\ chunks_info'[Len(chunks_info')].flag = "preserved_original"
              /\ chunks_info'[Len(chunks_info')].chunk_index = i)]_vars

\* all four calls of the first span of a chapter-aligned job of two spans
\* have raised (no output was ever measured, so no corrective instruction
\* was built) and the source text was recorded under the notice
C2_Witness ==
    /\ pc = "span_end"
    /\ path = "chapter"
    /\ Len(chunks) = 2
    /\ i = 0
    /\ spanCalls = 4
    /\ retry_instruction = <<>>
    /\ call.kind = "chapter_simple"
    /\ call.outcome = "raised"
    /\ processed_chunks[1].src = "preserved"
    /\ processed_chunks[1].len = 67 + chunks[1].end_char
    /\ chunks_info[1].flag = "preserved_original"

\* C3 (as stated): with a non-empty source and the credential present,
\* process never ends with a Generator failure.
C3_GeneratorFailureNeverRaises ==
    (job.api_key /\ job.original_length > 0) => raised # GenerationError

\* C4 (as stated): without the credential no span-level retry happens, no
\* placeholder chapter is written, and the job does not return normally.
C4_MissingCredentialPropagates ==
    ~job.api_key =>
        /\ retries = 0
        /\ \A k \in 1..Len(processed_chunks) :
              processed_chunks[k].src # "placeholder"
        /\ pc # "done"

\* C5: on the chapter-aligned and the fixed-size path an output accepted by
\* validation for a span that is not the last has a length between the
\* span's minimum and maximum.
C5_AcceptedWithinBand ==
    path \in ChunkRewriterPaths =>
        \A k \in 1..Len(chunks_info) :
            (chunks_info[k].flag = "none" /\ k < Len(chunks)) =>
                /\ processed_chunks[k].len = chunks_info[k].processed_length
                /\ chunks_info[k].min_target_length <= processed_chunks[k].len
                /\ processed_chunks[k].len <= chunks_info[k].max_target_length
                /\ chunks_info[k].min_target_length =
                       span_budget(path, job, chunks[k]).min
                /\ chunks_info[k].max_target_length =
                       span_budget(path, job, chunks[k]).max

\* a first span of a fixed-size job accepted at exactly its maximum
C5_Witness ==
    /\ path = "fixed"
    /\ Len(chunks) = 2
    /\ Len(chunks_info) >= 1
    /\ chunks_info[1].flag = "none"
    /\ chunks_info[1].processed_length = chunks_info[1].max_target_length

MainCallKinds == {"chapter_main", "fixed_main", "expansion_main"}

SimplifiedCallKinds == {"chapter_simple", "fixed_simple"}

\* the step rejects the text it has just obtained: one retry more, nothing
\* recorded
Rejects ==
    /\ ~success'
    /\ retries' = retries + 1
    /\ processed_chunks' = processed_chunks
    /\ pc' = "span"

\* the step accepts the text it has just obtained: it is recorded as the
\* output of span i
Accepts ==
    /\ success'
    /\ retries' = retries
    /\ processed_chunks' = Append(processed_chunks, processed_chunk')
    /\ pc' = "span_end"

\* a main-loop call for the last span has returned a text in this step
LastSpanAnswered ==
    /\ pc = "span"
    /\ i = Len(chunks) - 1
    /\ call'.kind \in MainCallKinds
    /\ call'.outcome = "returned"

SpanRank ==
    IF pc = "span" THEN (3 - retries) + 2
    ELSE IF pc = "span_end" THEN 1
    ELSE 0

\* C7: a span uses at most max_retries (3) main-loop attempts, whatever made
\* them fail, and at most one simplified call after them, so at most 4
\* generate calls; every step taken for a span brings its end nearer.
C7_BoundedCallsPerSpan ==
    /\ [](/\ retries <= 3
          /\ spanCalls <= 3 + 1
          /\ pc = "span" => spanCalls = retries
          /\ pc = "span_end" => spanCalls <= retries + 1
          /\ call.kind \in SimplifiedCallKinds => (retries = 3 /\ pc = "span_end")
          /\ path = "expansion" => spanCalls <= 3
          /\ SpanRank >= 0)
    /\ [][pc = "span" => SpanRank' < SpanRank]_vars

\* a span of a fixed-size job has used its three attempts and the simplified
\* call
C7_Witness ==
    /\ path = "fixed"
    /\ pc = "span_end"
    /\ retries = 3
    /\ spanCalls = 4
    /\ call.kind = "fixed_simple"

\* C8: every structure-index call is made before any span call; a call for
\* span i is made only when the structure index is complete and the outputs
\* of exactly the spans before i are recorded; the span index never goes back.
C8_CallOrder ==
    /\ [][call'.kind \in StructureCallKinds =>
             (/\ pc = "master"
              /\ master_document = NoDoc
              /\ chunks = <<>>
              /\ processed_chunks = <<>>
              /\ spanCalls = 0)]_vars
    /\ [][call'.kind \in SpanCallKinds =>
             (/\ pc = "span"
              /\ master_document # NoDoc
              /\ call'.span = i
              /\ Len(processed_chunks) = i
              /\ \A k \in 1..i : processed_chunks[k].span = k - 1)]_vars
    /\ [][i' = i \/ (i' = i + 1 /\ Len(processed_chunks) = i + 1)]_vars

\* a call is made for the second span of a job whose structure index was
\* built over several analysis windows
C8_Witness ==
    /\ master_document.kind = "windows"
    /\ call.kind \in SpanCallKinds
    /\ call.span = 1
    /\ Len(master_doc_parts) = 3

\* the final n characters (all of them when there are fewer) of the output
\* recorded for the span before i
RecordedTail(n) ==
    [of |-> processed_chunks[i], len |-> Min(processed_chunks[i].len, n)]

PathAsSelected ==
    path = IF target_length(job) > job.original_length THEN "expansion"
           ELSE IF /\ job.use_chapter_aligned_chunking
                   /\ Len(master_document.headings) >= 1
           THEN "chapter"
           ELSE "fixed"

NoChapterJob ==
    /\ target_length(job) <= job.original_length
    /\ job.use_chapter_aligned_chunking
    /\ master_document # NoDoc
    /\ master_document.headings = <<>>

\* C11: when the scaling factor is at most 1.0, chapter-aligned rewriting is
\* enabled and the structure index has no chapter, the job goes through the
\* fixed-size path over the whole source, never raises, makes no call of the
\* chapter-aligned rewriter, and returns the result of the fixed-size path.
C11_NoChapterFallback ==
    (NoChapterJob /\ pc # "select") =>
        /\ path = "fixed"
        /\ raised = "none"
        /\ pc # "raised"
        /\ call.kind \notin {"chapter_main", "chapter_simple", "expansion_main"}
        /\ Len(chunks) = CeilDiv(job.original_length, 15000)
        /\ chunks[1].start_char = 0
        /\ chunks[Len(chunks)].end_char = job.original_length
        /\ pc = "done" =>
              /\ Len(processed_chunks) = Len(chunks)
              /\ result.len >= 1

\* such a job has returned after rewriting two fixed-size spans
C11_Witness ==
    /\ NoChapterJob
    /\ pc = "done"
    /\ path = "fixed"
    /\ Len(chunks) = 2
    /\ Len(processed_chunks) = 2

\* the length of the parts from the k-th on, each with the separator that
\* follows it in the joined text
RECURSIVE LengthFrom(_, _, _)
LengthFrom(parts, k, collapse) ==
    IF k > Len(parts) THEN 0
    ELSE parts[k].len
         + (IF k = Len(parts) THEN 0
            ELSE IF collapse /\ parts[k].nl = 1 THEN 1 ELSE 2)
         + LengthFrom(parts, k + 1, collapse)

\* C12: on every path the recorded outputs are those of spans 0..k-1 in
\* ascending span index, one per span: i of them while span i is rewritten,
\* i+1 once its result is recorded, one per span at the end; the text handed
\* to the final trim is made of exactly these outputs in that order (joined
\* by blank lines, runs of newlines cut back to two on the two ChunkRewriter
\* paths).
C12_OutputsInSpanOrder ==
    /\ \A k \in 1..Len(processed_chunks) : processed_chunks[k].span = k - 1
    /\ pc = "span" => Len(processed_chunks) = i
    /\ pc = "span_end" => Len(processed_chunks) = i + 1
    /\ pc \in {"join", "trim", "done"} => Len(processed_chunks) = Len(chunks)
    /\ pc \in {"trim", "done"} =>
          /\ processed_transcript.of = processed_chunks
          /\ processed_transcript.len =
                LengthFrom(processed_chunks, 1, path # "expansion")
    /\ pc \notin {"trim", "done"} => processed_transcript = NoText

\* two outputs of a chapter-aligned job have been joined, the first one
\* ending with a newline
C12_Witness ==
    /\ pc = "trim"
    /\ path = "chapter"
    /\ Len(processed_chunks) = 2
    /\ processed_chunks[1].nl = 1
    /\ processed_transcript.of = processed_chunks
    /\ processed_transcript.len =
          processed_chunks[1].len + 1 + processed_chunks[2].len

\* target length + 50000, the length above which process() trims
MaxAcceptable == target_length(job) + 50000

\* the joined text is too long and has at least two chapter-heading lines
TrimApplies ==
    /\ pc = "done"
    /\ processed_transcript.len > MaxAcceptable
    /\ Len(processed_transcript.heads) >= 2

\* what is left of the text when only its first keep chapters are kept: its
\* length less the sizes of the chapters after them, one by one
RECURSIVE LengthAfterRemovals(_, _)
LengthAfterRemovals(text, keep) ==
    IF keep >= Len(text.heads) THEN text.len
    ELSE LengthAfterRemovals(text, keep + 1)
         - ((IF keep + 1 < Len(text.heads) THEN text.heads[keep + 2] ELSE text.len)
            - text.heads[keep + 1])

\* C13: when the joined text is longer than targetLength + 50000 and has at
\* least two chapter-heading lines, the returned text is at most that long or
\* has exactly one chapter heading; the length the loop has computed is the
\* length of the returned text, and after every removal the running length is
\* the offset at which the text would be cut.
C13_TrimPostcondition ==
    TrimApplies =>
        /\ result.len <= MaxAcceptable \/ Len(result.heads) = 1
        /\ Len(result.heads) >= 1
        /\ trimmed_length(processed_transcript, Len(processed_transcript.heads),
                          processed_transcript.len, MaxAcceptable) = result.len
        /\ \A keep \in 1..Len(processed_transcript.heads) - 1 :
              LengthAfterRemovals(processed_transcript, keep) =
                  processed_transcript.heads[keep + 1]

\* a text of four chapters was cut back to two, which fit
C13_Witness ==
    /\ TrimApplies
    /\ Len(processed_transcript.heads) = 4
    /\ Len(result.heads) = 2
    /\ result.len <= MaxAcceptable
    /\ result.len = processed_transcript.heads[3]

\* C14: the final trim removes a suffix made of whole chapters only: the
\* returned text is the joined text itself or its prefix up to the start of
\* one of its chapter-heading lines after the first, made of the same outputs,
\* with the same headings at the same offsets; the first chapter and the text
\* before it are always kept.
C14_TrimRemovesWholeChapters ==
    pc = "done" =>
        /\ result.of = processed_transcript.of
        /\ \/ result = processed_transcript
           \/ \E keep \in 1..Len(processed_transcript.heads) - 1 :
                 /\ result.len = processed_transcript.heads[keep + 1]
                 /\ result.heads = SubSeq(processed_transcript.heads, 1, keep)
                 /\ result.len > processed_transcript.heads[1]
                 /\ \A h \in 1..keep : result.heads[h] < result.len

\* a text that starts with introductory text was cut at its second heading
C14_Witness ==
    /\ pc = "done"
    /\ result # processed_transcript
    /\ Len(processed_transcript.heads) >= 3
    /\ processed_transcript.heads[1] = Preamble
    /\ result.len = processed_transcript.heads[2]
    /\ result.heads = <<Preamble>>

\* C15: a joined text longer than targetLength + 50000 with fewer than two
\* chapter-heading lines is returned unchanged.
C15_TooFewHeadingsUnchanged ==
    (/\ pc = "done"
     /\ processed_transcript.len > MaxAcceptable
     /\ Len(processed_transcript.heads) < 2)
    => result = processed_transcript

\* a text of two outputs and one heading, far above the limit, was returned
\* as it was
C15_Witness ==
    /\ pc = "done"
    /\ Len(processed_chunks) = 2
    /\ Len(processed_transcript.heads) = 1
    /\ processed_transcript.len > MaxAcceptable + TrimShortLen
    /\ result = processed_transcript

\* C16: the final trim returns a text of at most targetLength + 50000
\* characters unchanged, and applied to its own result with the same target
\* length it returns that result unchanged.
C16_TrimIdempotent ==
    pc = "done" =>
        /\ processed_transcript.len <= MaxAcceptable
              => result = processed_transcript
        /\ final_trim(result, target_length(job)) = result

\* a text was cut back to its first chapter, which is still too long
C16_Witness ==
    /\ pc = "done"
    /\ result # processed_transcript
    /\ Len(processed_transcript.heads) >= 3
    /\ Len(result.heads) = 1
    /\ result.len > MaxAcceptable

\* the chapter numbers of the spans, span after span
RECURSIVE ChapterNumbersFrom(_, _)
ChapterNumbersFrom(cs, k) ==
    IF k > Len(cs) THEN <<>>
    ELSE cs[k].chapter_numbers \o ChapterNumbersFrom(cs, k + 1)

\* the structure index of the job has at least one chapter and
\* chapter-aligned rewriting was entered
PlannerCalled ==
    /\ path = "chapter"
    /\ Len(master_document.headings) >= 1

\* C17 (as stated): for every non-empty list of parsed chapters sorted by
\* number, the planner returns at least one span without failing, and the
\* chapter numbers of the spans, taken span after span, are exactly the
\* chapter numbers of the list in their order.
C17_PlannerKeepsEveryChapter ==
    PlannerCalled =>
        /\ raised = "none"
        /\ Len(chunks) >= 1
        /\ ChapterNumbersFrom(chunks, 1) =
              SortSeq(master_document.headings, LAMBDA a, b : a < b)

\* C18: the spans of the chapter-aligned and of the fixed-size path partition
\* the source: the first starts at 0, each starts where the one before ends,
\* none ends before it starts, and the last ends at the end of the source.
C18_SpansPartitionSource ==
    (pc = "span" /\ path \in {"chapter", "fixed"}) =>
        /\ Len(chunks) >= 1
        /\ chunks[1].start_char = 0
        /\ \A k \in 1..Len(chunks) - 1 : chunks[k + 1].start_char = chunks[k].end_char
        /\ \A k \in 1..Len(chunks) : chunks[k].start_char <= chunks[k].end_char
        /\ chunks[Len(chunks)].end_char = job.original_length

\* four chapter-aligned spans over the long source, the last one taking what
\* the equal division leaves over
C18_Witness ==
    /\ pc = "span"
    /\ path = "chapter"
    /\ Len(chunks) = 4
    /\ job.original_length = PlanLongSource
    /\ chunks[4].end_char = PlanLongSource
    /\ chunks[4].end_char - chunks[4].start_char
          >= chunks[1].end_char - chunks[1].start_char

(* ---------------------------------------------------------------------- *)
(* C19, C20: the Segmenter (checked under SegSpec)                        *)
(* ---------------------------------------------------------------------- *)
\* the pieces of the segments from the k-th on, in the order returned
RECURSIVE ReturnedPieces(_, _)
ReturnedPieces(segments, k) ==
    IF k > Len(segments) THEN <<>>
    ELSE segments[k].pieces \o ReturnedPieces(segments, k + 1)

\* how many characters of paragraph p the pieces hold
RECURSIVE CharsOf(_, _)
CharsOf(pieces, p) ==
    IF pieces = <<>> THEN 0
    ELSE (IF Head(pieces).p = p THEN Head(pieces).to - Head(pieces).from
          ELSE 0)
           + CharsOf(Tail(pieces), p)

\* the pieces follow the source: a later paragraph, or the same paragraph
\* continued where the previous piece stopped
InSourceOrder(pieces) ==
    \A k \in 1..(Len(pieces) - 1) :
       \/ pieces[k].p < pieces[k + 1].p
       \/ /\ pieces[k].p = pieces[k + 1].p
          /\ pieces[k].to = pieces[k + 1].from

\* C19: whenever segment_transcript returns, the returned segments are in
\* source order and together hold every paragraph of the input exactly
\* once: no paragraph is lost or duplicated, a trailing group of paragraphs
\* shorter than min_segment_size included.
C19_SegmenterCoversEveryParagraph ==
    pc = "segmented" =>
       /\ InSourceOrder(ReturnedPieces(result, 1))
       /\ \A p \in 1..Len(job.paragraphs) :
             CharsOf(ReturnedPieces(result, 1), p) = job.paragraphs[p]

\* the input is longer than target_segment_size
LongInput(j) == TextLen(transcript_text(j)) > target_segment_size

\* the segments went through the check of the maximum size, so that a
\* returned segment above it is one that the re-splitting produced
Resplit(j) ==
    /\ LongInput(j)
    /\ ideal_num_segments(split_into_paragraphs(transcript_text(j))) > 1

\* C20: for an input longer than target_segment_size, every returned
\* segment other than the first and the last has a length within
\* [min_segment_size, max_segment_size], and no segment produced by
\* re-splitting an oversized segment exceeds max_segment_size.
C20_SegmentSizeBounds ==
    pc = "segmented" =>
       /\ LongInput(job) =>
             \A k \in 2..(Len(result) - 1) :
                /\ TextLen(result[k]) >= min_segment_size
                /\ TextLen(result[k]) <= max_segment_size
       /\ Resplit(job) =>
             \A k \in 1..Len(result) :
                TextLen(result[k]) <= max_segment_size

(* ---------------------------------------------------------------------- *)
(* C21: the per-span budget (checked under BudgetSpec)                    *)
(* ---------------------------------------------------------------------- *)
\* the bounds of a budget enclose its target
Ordered(b) == b.min <= b.target /\ b.target <= b.max

\* the budget an entry of the record was compared with
BudgetOf(info) ==
    Budget(info.target_length, info.min_target_length, info.max_target_length)

\* a bound of the budget is not the exact fraction of the target
Truncated(b) ==
    /\ 10 * b.min \notin {7 * b.target, 8 * b.target, 9 * b.target}
    /\ 10 * b.max \notin {13 * b.target, 12 * b.target, 11 * b.target}

\* C21: for every span and every scaling factor of a job, the budget the
\* rewriter computes for the span satisfies min <= target <= max, after the
\* truncation of the bounds to integers and after the cap of the target.
C21_BudgetEnclosesTarget ==
    /\ (pc = "span" /\ i < Len(chunks)) =>
          Ordered(span_budget(path, job, chunks[i + 1]))
    /\ \A k \in 1..Len(chunks_info) : Ordered(BudgetOf(chunks_info[k]))

\* a span whose bounds were truncated has been validated and recorded
C21_Witness ==
    \E k \in 1..Len(chunks_info) :
       /\ Truncated(BudgetOf(chunks_info[k]))
       /\ chunks_info[k].target_length > 0
       /\ chunks_info[k].flag = "none"
       /\ Ordered(BudgetOf(chunks_info[k]))

(* ---------------------------------------------------------------------- *)
(* C22: the retry loop of process_llm (checked under AdapterSpec)         *)
(* ---------------------------------------------------------------------- *)
\* the backend attempts the call in progress has made so far
BackendAttempts(l) ==
    Len(l.errors) + (IF l.result.src = "backend" THEN 1 ELSE 0)

\* at most max_retries attempts; an error leaves the call only as the error
\* of the last of max_retries failed attempts
BoundedAttempts(l) ==
    /\ BackendAttempts(l) <= l.max_retries
    /\ (l.pc = "raised" /\ l.errors # <<>>) =>
          /\ Len(l.errors) = l.max_retries
          /\ l.raised = l.errors[Len(l.errors)]

\* the text returned is the response of the first attempt that succeeded
ReturnsFirstSuccess(l) ==
    /\ l.result = backend_text(Len(l.errors) + 1)
    /\ Len(l.errors) < l.max_retries

InputIndependent(text) ==
    \A model \in Models, context \in Contexts : text = mock_text(model, context)

\* C23: in mock mode any two generate calls, whatever their source text and
\* model, return the same fixed placeholder text, and a job run with
\* mock_mode = TRUE makes no backend call and needs no credential.
C23_MockIsFixedPlaceholder ==
    /\ (llm.pc = "returned" /\ llm.result.src = "mock") =>
          InputIndependent(llm.result)
    /\ (run.pc = "running" /\ run.mock_mode) =>
          /\ BackendAttempts(llm) = 0
          /\ llm.pc # "attempt"
          /\ llm.raised # ValueError

(* ---------------------------------------------------------------------- *)
(* C24: a Generator that answers with the target length                   *)
(* ---------------------------------------------------------------------- *)
\* the first call for the current span returns, in this step, a text whose
\* length is the target length of the span
FirstCallAtTarget ==
    /\ pc = "span"
    /\ path \in ChunkRewriterPaths
    /\ spanCalls = 0
    /\ call'.kind \in MainCallKinds
    /\ call'.outcome = "returned"
    /\ processed_chunk'.len = span_budget(path, job, chunks[i + 1]).target

\* the text obtained in this step is recorded as it is, not degraded
RecordedAsValid ==
    /\ Accepts
    /\ spanCalls' = 1
    /\ Len(chunks_info') = Len(chunks_info) + 1
    /\ chunks_info'[Len(chunks_info')].flag = "none"
    /\ chunks_info'[Len(chunks_info')].processed_length = processed_chunk'.len

\* C24: when the first call for a span of the chapter-aligned or fixed-size
\* path returns a text of the span's target length, the span is accepted
\* after that one call and recorded as not degraded; a simplified call is
\* made only for a span that has not been recorded after its main-loop
\* calls, and no exception leaves the job once its spans are being
\* rewritten.
C24_TargetLengthAccepted ==
    [][/\ FirstCallAtTarget => RecordedAsValid
       /\ call'.kind \in SimplifiedCallKinds =>
             /\ ~success
             /\ spanCalls > 0
             /\ Len(chunks_info) = i
       /\ pc' = "raised" => pc \in {"master", "select"}]_vars

\* the last of several spans has been accepted after one call that returned
\* its target length, as every span before it, and nothing is degraded
C24_Witness ==
    /\ pc = "span_end"
    /\ path \in ChunkRewriterPaths
    /\ Len(chunks) > 1
    /\ i = Len(chunks) - 1
    /\ spanCalls = 1
    /\ Len(chunks_info) = Len(chunks)
    /\ \A k \in 1..Len(chunks_info) :
          /\ chunks_info[k].flag = "none"
          /\ chunks_info[k].processed_length = chunks_info[k].target_length
          /\ chunks_info[k].min_target_length < chunks_info[k].target_length

(* ---------------------------------------------------------------------- *)
(* C25: jobs run one after the other in one process (AdapterSpec)         *)
(* ---------------------------------------------------------------------- *)
\* C25: nothing set by one job is visible to a later job of the process: a
\* job run with mock_mode = FALSE after a job run with mock_mode = TRUE
\* finds the mock switch as it was when the process started (not set), and
\* every text its calls return comes from the backend.
C25_NoStateCrossesJobs ==
    (run.pc = "running" /\ ~run.mock_mode) =>
       /\ ~environ.MOCK_LLM_API
       /\ llm.pc = "returned" => llm.result.src = "backend"

(* ---------------------------------------------------------------------- *)
(* Artifact directories of concurrent jobs                                *)
(* ---------------------------------------------------------------------- *)
\* the jobs whose setup_video_directory has returned
JobsWithDirectory == {j \in DOMAIN store.jobs : store.jobs[j].video_dir # NoDir}

\* two jobs whose runs overlap got the same directory
SharedDirectory ==
    \E a, b \in JobsWithDirectory :
        a # b /\ store.jobs[a].video_dir = store.jobs[b].video_dir

\* C26: any two concurrent jobs, two jobs for the same video id started at
\* the same time included, get distinct artifact directories, and no job
\* writes over a file of the other
C26_DistinctArtifactDirectories ==
    /\ ~SharedDirectory
    /\ store.overwritten = {}

(* ---------------------------------------------------------------------- *)
(* Order of the transcript sources                                        *)
(* ---------------------------------------------------------------------- *)
\* the places of the requests for source s
RequestsFor(s) == {k \in DOMAIN fetch.requests : fetch.requests[k] = s}

Requested(s) == RequestsFor(s) # {}

\* every request for source a comes before every request for source b
RequestedBefore(a, b) ==
    \A k \in RequestsFor(a), l \in RequestsFor(b) : k < l

\* no source answers with a transcript and the listing works
NoneFound ==
    /\ fetch.sources.preferred = NoTranscriptFound
    /\ fetch.sources.listing = "listed"
    /\ fetch.sources.manual = NoTranscriptFound
    /\ fetch.fallback_to_auto => fetch.sources.generated = NoTranscriptFound

ExpansionSegmentExhausted ==
    /\ pc = "span"
    /\ path = "expansion"
    /\ needs_fallback(success, retries)

\* C28: when all max_retries attempts for an expansion segment have failed,
\* the next step is one simplified generate call; the segment's source text
\* under a failure notice is recorded exactly when that call raises,
\* otherwise the text of the simplified call is recorded
C28_ExpansionFallsBackOnce ==
    [][ExpansionSegmentExhausted =>
          /\ call'.kind \in SimplifiedCallKinds
          /\ call'.span = i
          /\ call'.outcome = "raised" <=> processed_chunk'.src = "preserved"
          /\ call'.outcome = "returned" => processed_chunk'.src = "simple"]_vars

(* ---------------------------------------------------------------------- *)
(* Corrective instruction after a length rejection                        *)
(* ---------------------------------------------------------------------- *)
\* the latest call for span i returned a text that was rejected for length
LengthRejected ==
    /\ pc = "span"
    /\ ~success
    /\ call.kind \in MainCallKinds
    /\ call.span = i
    /\ call.outcome = "returned"

\* the instruction that names the direction and the distance between the
\* rejected length n and the bound it broke
CorrectionFor(b, n) ==
    IF n < b.min THEN Correction("short", n, b.min - n)
    ELSE Correction("long", n, n - b.max)

\* the prompt of the step's call holds instruction c
PromptHolds(c) == \E k \in DOMAIN call'.retry : call'.retry[k] = c

\* C29: on every rewriting path the prompt of the attempt that follows a
\* length rejection holds a corrective instruction with the direction and
\* the exact number of characters between the rejected length and the bound
\* it broke; the prompt of the first attempt for a span holds none
C29_CorrectiveInstruction ==
    [][(pc = "span" /\ call'.kind \in MainCallKinds) =>
          /\ spanCalls = 0 => call'.retry = <<>>
          /\ LengthRejected =>
                PromptHolds(CorrectionFor(span_budget(path, job, chunks[i + 1]),
                                          processed_chunk.len))]_vars

(* ---------------------------------------------------------------------- *)
(* Segments of the expansion path                                         *)
(* ---------------------------------------------------------------------- *)
\* the source has been divided for expansion
DividedForExpansion == path = "expansion" /\ pc \in {"span", "span_end", "join"}

\* the spans lie end to start from 0 to the length of the source
CoversSource(cs, length) ==
    /\ cs # <<>>
    /\ cs[1].start_char = 0
    /\ \A k \in DOMAIN cs : cs[k].start_char <= cs[k].end_char
    /\ \A k \in 1..(Len(cs) - 1) : cs[k].end_char = cs[k + 1].start_char
    /\ cs[Len(cs)].end_char = length

\* the boundaries of the spans
Boundaries(cs) ==
    [k \in DOMAIN cs |-> [start_char |-> cs[k].start_char,
                          end_char |-> cs[k].end_char]]

\* C30: on the expansion path the source is divided into exactly
\* ceil(target length / 15000) segments that lie end to start, do not
\* overlap and cover the source from 0 to its length, the last one ending
\* at the length of the source; the segments carry the chapter numbers
\* 1, 2, ..., n in their order and are recorded in that order; the
\* boundaries of the structure-index builder are the same
C30_ExpansionSegmentsCoverSource ==
    DividedForExpansion =>
        /\ Len(chunks) = CeilDiv(target_length(job), 15000)
        /\ CoversSource(chunks, job.original_length)
        /\ \A k \in DOMAIN chunks : chunks[k].chapter_numbers = <<k>>
        /\ \A k \in DOMAIN chunks_info : chunks_info[k].chunk_index = k - 1
        /\ master_document_segments(job) = Boundaries(chunks)

(* ---------------------------------------------------------------------- *)
(* Acceptance band of the expansion path                                  *)
(* ---------------------------------------------------------------------- *)
\* the step is a call for an expansion segment that returned a text
ExpansionAnswered ==
    /\ pc = "span"
    /\ call'.kind = "expansion_main"
    /\ call'.outcome = "returned"

\* the text obtained in the step lies in [0.7 * target, 1.7 * target]
InExpansionBand ==
    /\ processed_chunk'.len >= IntMul(max_chapter_size, 7, 10)
    /\ processed_chunk'.len <= IntMul(max_chapter_size, 17, 10)

\* C31: on the expansion path a generated chapter is accepted exactly when
\* its length lies in [0.7 * target, 1.7 * target], bounds cut to integers,
\* and the range named in the expansion instruction is this same range
C31_ExpansionBandAsAnnounced ==
    [][ExpansionAnswered =>
          /\ success' <=> InExpansionBand
          /\ expansion_prompt_range(max_chapter_size) =
                [min |-> IntMul(max_chapter_size, 7, 10),
                 max |-> IntMul(max_chapter_size, 17, 10)]]_vars

(* ---------------------------------------------------------------------- *)
(* Empty responses                                                        *)
(* ---------------------------------------------------------------------- *)
\* a main-loop call of the step has returned a text without characters
EmptyAnswer ==
    /\ pc = "span"
    /\ call'.kind \in MainCallKinds
    /\ call'.outcome = "returned"
    /\ processed_chunk'.len = 0

C33_ArtifactFailureDoesNotAbort ==
    write_raises(disk) => ~(pc = "raised" /\ raised = OSError)

(* ---------------------------------------------------------------------- *)
(* Analysis windows of the structure index                                *)
(* ---------------------------------------------------------------------- *)
WindowCallKinds == {"master_first", "master_continuation"}

\* the last chapter number in the outlines of all the windows done so far,
\* 0 when none of them has a chapter heading
LastChapterSoFar(parts) ==
    IF Concat(parts) = <<>> THEN 0
    ELSE Concat(parts)[Len(Concat(parts))]

\* C34: the analysis windows are processed in order, window 0 with the FIRST
\* instruction and every later window with the CONTINUATION instruction,
\* and the last-chapter number given to window i is the last chapter number
\* produced by any of the windows 0..i-1, also when window i-1 itself
\* produced no chapter heading
C34_WindowNumbering ==
    [][(pc = "master" /\ call'.kind \in WindowCallKinds) =>
          /\ call'.span = Len(master_doc_parts)
          /\ call'.kind = "master_first" <=> Len(master_doc_parts) = 0
          /\ call'.kind = "master_continuation" =>
                call'.last_chapter_num = LastChapterSoFar(master_doc_parts)]_vars

(* ---------------------------------------------------------------------- *)
(* Boundary selection of the Segmenter                                    *)
(* ---------------------------------------------------------------------- *)
\* the boundaries at which _create_segments cuts, in the order of the cuts:
\* none when one segment is enough, otherwise the selected boundaries
\* without the one added at the end
chosen_boundaries(j) ==
    LET paragraphs == split_into_paragraphs(transcript_text(j))
        selected == selected_boundaries(j, paragraphs)
    IN IF ideal_num_segments(paragraphs) = 1 THEN <<>>
       ELSE SubSeq(selected, 1, Len(selected) - 1)

\* no boundary left out has a higher score than a chosen one
HighestScoring(j, chosen) ==
    LET paragraphs == split_into_paragraphs(transcript_text(j))
    IN \A b \in chosen :
          \A c \in identify_boundaries(paragraphs) \ chosen :
             boundary_score(j, paragraphs, c)
                <= boundary_score(j, paragraphs, b)

\* C35: for an input longer than target_segment_size the Segmenter selects
\* exactly ceil(totalLength / targetSegmentSize) - 1 paragraph boundaries,
\* the highest-scoring ones, and applies the cuts in ascending position
C35_BoundarySelection ==
    (pc # "segment" /\ LongInput(job)) =>
       LET paragraphs == split_into_paragraphs(transcript_text(job))
           chosen == chosen_boundaries(job)
       IN /\ Len(chosen)
               = CeilDiv(total_length(paragraphs), target_segment_size) - 1
          /\ HighestScoring(job, {chosen[k] : k \in 1..Len(chosen)})
          /\ \A k \in 1..(Len(chosen) - 1) : chosen[k] < chosen[k + 1]

(* ---------------------------------------------------------------------- *)
(* Totality of the Segmenter                                              *)
(* ---------------------------------------------------------------------- *)
\* C36: segment_transcript is total: for every input, a single paragraph
\* longer than max_segment_size and a text without sentence ending
\* included, the re-splitting of over-long segments terminates and the call
\* returns its segments without raising
C36_SegmenterTotal ==
    pc # "segment" => (pc = "segmented" /\ raised # ValueError)

(* ---------------------------------------------------------------------- *)
(* Per-span targets                                                       *)
(* ---------------------------------------------------------------------- *)
\* round(span_length * scaling_factor) with the job-wide scaling factor
\* target_length / original_length, 1.0 for a source without characters
RoundedTarget(j, span_length) ==
    IF j.original_length = 0 THEN span_length
    ELSE Round(span_length * target_length(j), j.original_length)

\* C37: on the chapter-aligned and the fixed-size path the target of every
\* span is round(spanSourceLength * globalScalingFactor), computed from the
\* span's own length and the job-wide factor, and no other rule alters it
C37_SpanTargetScaled ==
    path \in ChunkRewriterPaths =>
       /\ (pc = "span" /\ i < Len(chunks)) =>
             span_budget(path, job, chunks[i + 1]).target
                = RoundedTarget(job, input_length(chunks[i + 1]))
       /\ \A k \in 1..Len(chunks_info) :
             chunks_info[k].target_length
                = RoundedTarget(job, chunks_info[k].original_length)

(* ---------------------------------------------------------------------- *)
(* The processing record                                                  *)
(* ---------------------------------------------------------------------- *)
\* the spans finished so far
FinishedSpans ==
    IF pc = "span" THEN i
    ELSE IF pc = "span_end" THEN i + 1
    ELSE Len(chunks)

\* the flag that tells how the span of a recorded output ended
EndedAs(p, t, is_last) ==
    IF p \in ChunkRewriterPaths THEN FlagOfSrc(t.src)
    ELSE IF \/ t.src = "placeholder"
            \/ too_short(t.len, expansion_budget.min)
            \/ expansion_too_long(is_last, t.len, expansion_budget.max)
    THEN "all_retries_failed"
    ELSE "none"

\* one entry per finished span, in span order, with the length of the
\* recorded output and the flag of the way the span ended
RecordFollowsSpans ==
    /\ Len(chunks_info) = FinishedSpans
    /\ Len(processed_chunks) = FinishedSpans
    /\ \A k \in 1..Len(chunks_info) :
          /\ chunks_info[k].chunk_index = k - 1
          /\ chunks_info[k].original_length = input_length(chunks[k])
          /\ chunks_info[k].processed_length = processed_chunks[k].len
          /\ chunks_info[k].flag
                = EndedAs(path, processed_chunks[k], chunks_info[k].is_last_chunk)

\* the complete record is there for the caller of the job
RecordAvailable ==
    /\ disk.info_written
    /\ disk.info = chunks_info
    /\ Len(disk.info) = Len(chunks)

\* C38: after each span is finished, on every rewriting path, the record
\* holds exactly one entry per finished span, in span order, whose processed
\* length is the length of the output recorded for the span and whose flag
\* matches how the span ended; the complete record is made available with
\* the final text on every path
C38_ProcessingRecord ==
    /\ pc \in {"span", "span_end", "join", "trim", "done"} => RecordFollowsSpans
    /\ pc \in {"trim", "done"} => RecordAvailable

(* ---------------------------------------------------------------------- *)
(* The fallback model of process_llm                                      *)
(* ---------------------------------------------------------------------- *)
\* the call has left the retry loop without a response and has ended
PrimaryExhausted(l) ==
    /\ l.pc = "raised"
    /\ l.raised # ValueError
    /\ Len(l.errors) = l.max_retries

\* C39: when all max_retries attempts against the primary model have failed
\* and a fallback model is enabled, the fallback model is called exactly
\* once with the same text and instructions, and the last error of the
\* primary model is raised only if that call of the fallback model has
\* failed too
C39_FallbackModelCalledOnce ==
    (PrimaryExhausted(llm) /\ fallback_configured(environ)) =>
       /\ llm.fallback_attempts = 1
       /\ llm.fallback_raised \in BackendErrors

(* ---------------------------------------------------------------------- *)
(* The chapter of an expansion segment                                    *)
(* ---------------------------------------------------------------------- *)
\* the rejected outputs of the current segment that had characters: their
\* positions in the list of corrective sentences, one per rejected output
NonEmptyRejected == {k \in DOMAIN retry_instruction : retry_instruction[k].out > 0}

\* the chapter the segment is to contribute when no attempt was validated
ChapterWithoutValidation ==
    IF NonEmptyRejected = {} THEN placeholder_chapter(i, chunks[i + 1])
    ELSE LET k == CHOOSE k \in NonEmptyRejected :
                     \A m \in NonEmptyRejected : m <= k
         IN Answer("main", i, retry_instruction[k].out, expansion_budget.max)

\* C40: on the expansion path every segment contributes exactly one
\* non-empty chapter text: the validated output if an attempt passed
\* validation; otherwise the output of the last attempt that returned
\* non-empty text, also when out of bounds; otherwise the placeholder made
\* of the chapter heading, a failure notice and the segment's source text.
\* The recorded all_retries_failed flag is true exactly when no attempt
\* passed validation
C40_ExpansionChapterPerSegment ==
    (pc = "span_end" /\ path = "expansion") =>
       /\ Len(processed_chunks) = i + 1
       /\ Len(chunks_info) = i + 1
       /\ processed_chunks[i + 1].len > 0
       /\ chunks_info[i + 1].flag = "all_retries_failed" <=> ~success
       /\ success =>
             /\ processed_chunks[i + 1] = processed_chunk
             /\ ~too_short(processed_chunk.len, expansion_budget.min)
             /\ ~expansion_too_long(is_last_chunk(i, chunks),
                                    processed_chunk.len, expansion_budget.max)
       /\ ~success => processed_chunks[i + 1] = ChapterWithoutValidation

====
